---- MODULE Spec2Model ----
(***************************************************************************)
(* Railway-Status-Crew: the train-status pipeline (src/tools.py) and its    *)
(* runner (src/crew.py).                                                    *)
(*                                                                          *)
(* Representation of Python values:                                         *)
(*   - a dict is a record whose DOMAIN is the dict's key set, so that       *)
(*     `"k" in d` is  "k" \in DOMAIN d;                                    *)
(*   - a train-number string is a sequence of one-character strings;        *)
(*   - a date string is a string of the table DateTable;                    *)
(*   - a timestamp is an integer number of seconds of the wall clock;       *)
(*   - None is PyNone (strings), PyNoneSeq (character sequences) or         *)
(*     NoTime (timestamps).                                                 *)
(***************************************************************************)
EXTENDS Integers, Sequences, FiniteSets, TLC

VARIABLES
    cache,      \* RailwayAPITool.cache: key -> [data, timestamp]
    now,        \* time.time() / datetime.now(), in seconds
    result,     \* what the last call of RailwayAPITool._run returned
    last,       \* the last call: its input, cache key, path through _run, the live
                \* source's behaviour, the time, and the age of the entry it found
    written,    \* key -> the record returned by the fetch that last wrote cache[key]
    nfetch,     \* number of calls of RailwayAPITool._run so far
    pc,         \* where get_train_status is: "idle", "kickoff", "handle_error", "done"
    args,       \* the arguments of the call of get_train_status
    inputs,     \* the inputs prepared for crew.kickoff
    log,        \* the stages run for the call so far: <<[stage, input, out], ...>>
    ret,        \* what get_train_status returned
    tool,       \* the tool called last on its own, "none" before any call
    tin,        \* the arguments of that call
    tout,       \* what that call returned
    heap,       \* the dicts made by concurrent fetches: a dict's reference is its
                \* index; cache[key].data of a concurrent fetch is such a reference
    threads     \* the concurrent fetches: [pc, ref, path, out] of each

fetchVars == <<result, last, written, nfetch>>

crewVars == <<pc, args, inputs, log, ret>>

toolVars == <<tool, tin, tout>>

raceVars == <<heap, threads>>

vars == <<cache, now, result, last, written, nfetch, pc, args, inputs, log, ret,
          tool, tin, tout, heap, threads>>

-----------------------------------------------------------------------------
(* Bounds of the model *)

MaxTime == 300
MaxFetches == 3

TickSteps == {299, 300}

-----------------------------------------------------------------------------
(* Python values *)

PyNone == "<None>"
PyNoneSeq == <<"<None>">>
NoTime == -1

Falsy(s) == s = PyNone \/ s = ""
FalsySeq(s) == s = PyNoneSeq \/ s = << >>

Digits == {"0", "1", "2", "3", "4", "5", "6", "7", "8", "9"}

\* Mutant: the five characters need not be digits
IsFiveCharacters(s) == s # PyNoneSeq /\ Len(s) = 5

\* re.match(r'^[0-9]{5}$', s)
IsFiveDigits(s) == s # PyNoneSeq /\ Len(s) = 5 /\ \A i \in 1..Len(s) : s[i] \in Digits

T12622 == <<"1", "2", "6", "2", "2">>
T00000 == <<"0", "0", "0", "0", "0">>
T123 == <<"1", "2", "3">>

Today == "2026-11-03"

\* dict.get(key, default)
Get(d, k, default) == IF k \in DOMAIN d THEN d[k] ELSE default

\* d[k] = v on a dict
Set(d, k, v) == [j \in DOMAIN d \cup {k} |-> IF j = k THEN v ELSE d[j]]

\* the dict without key k
Without(d, k) == [j \in DOMAIN d \ {k} |-> d[j]]

EmptyDict == [k \in {} |-> 0]

-----------------------------------------------------------------------------
(* RailwayAPITool: the status fetcher *)

cache_timeout == 300

mock_stations == <<"New Delhi", "Mumbai Central", "Chennai Central", "Kolkata",
                   "Bangalore City", "Hyderabad", "Pune", "Ahmedabad", "Jaipur",
                   "Lucknow", "Kanpur", "Nagpur", "Bhopal", "Indore", "Surat">>

\* The draws of `random` in _get_mock_data: a station index, a delay in minutes,
\* coordinates and three distinct upcoming stations.
MockDraws ==
    { [station |-> 1, delay |-> 0, lat |-> 28, lon |-> 77,
       upcoming |-> <<mock_stations[2], mock_stations[7], mock_stations[4]>>],
      [station |-> 12, delay |-> 45, lat |-> 21, lon |-> 79,
       upcoming |-> <<mock_stations[13], mock_stations[1], mock_stations[15]>>] }

_get_mock_data(train_number, date, error_context, t, rnd) ==
    [train_number |-> train_number,
     train_name |-> <<"Express Train", train_number>>,
     current_station |-> mock_stations[rnd.station],
     current_lat |-> rnd.lat,
     current_lon |-> rnd.lon,
     scheduled_arrival |-> t,
     actual_arrival |-> t + rnd.delay * 60,
     upcoming_stations |-> rnd.upcoming,
     last_updated |-> t,
     data_source |-> "mock_data",
     note |-> IF error_context # "" THEN <<"Using mock data - ", error_context>>
              ELSE <<"Using mock data for demonstration", "">>]

(* The live source: what SerperDevTool()._run(search_query) does.  kind is  *)
(* "raise" (the constructor or the call raises), "text" (a string that is   *)
(* not JSON, or a value that is no dict), "malformed" (a dict whose         *)
(* "organic" is not a list) or "results" (a dict with the list organic).    *)
(* A result is described by what _extract_train_info reads of it: whether   *)
(* it is a dict, whether its title is a string, whether the lowercased      *)
(* title contains the train number and "train", and of its snippet:         *)
(* keyword (one of the five status keywords occurs), station / station_cap  *)
(* (a phrase "(at|from|departed|arrived) <name>" occurs; the name starts    *)
(* with a capital letter), delay_n / delay_unit (a phrase "<N> <unit> ...   *)
(* (late|delay)" occurs, -1 when none) and other_hr ("hr" or "hour" occurs  *)
(* somewhere else in the snippet).                                          *)

NoSnippet ==
    [keyword |-> FALSE, station |-> "", station_cap |-> FALSE,
     delay_n |-> -1, delay_unit |-> "", other_hr |-> FALSE]

Res(names_train, snippet) ==
    [is_dict |-> TRUE, title_ok |-> TRUE, title_names_train |-> names_train,
     title_rest |-> "Chennai Mail", snippet |-> snippet]

R_station == Res(TRUE, [NoSnippet EXCEPT !.keyword = TRUE, !.station = "Nagpur",
                                         !.station_cap = TRUE])
R_min == Res(FALSE, [NoSnippet EXCEPT !.keyword = TRUE, !.delay_n = 10,
                                      !.delay_unit = "min"])
R_hr == Res(FALSE, [NoSnippet EXCEPT !.keyword = TRUE, !.delay_n = 2,
                                     !.delay_unit = "hr"])
R_nokey == Res(FALSE, [NoSnippet EXCEPT !.station = "Pune", !.station_cap = TRUE,
                                        !.delay_n = 30, !.delay_unit = "min"])
R_badtitle == [Res(FALSE, NoSnippet) EXCEPT !.title_ok = FALSE]
R_nondict == [Res(FALSE, NoSnippet) EXCEPT !.is_dict = FALSE]

LiveOutcomes ==
    { [kind |-> "raise", organic |-> << >>],
      [kind |-> "text", organic |-> << >>],
      [kind |-> "malformed", organic |-> << >>],
      [kind |-> "results", organic |-> <<R_station, R_min>>],
      [kind |-> "results", organic |-> <<R_nokey, R_nondict>>] }

\* str.lower() on a snippet: no capital letter is left in it
Lower(snippet) == [snippet EXCEPT !.station_cap = FALSE]

\* re.search(r'(?:at|from|departed|arrived)\s+([A-Z][a-zA-Z\s]+?)(?:\s|$|\.)', snippet)
station_match(snippet) == snippet.station # "" /\ snippet.station_cap

\* re.search(r'(\d+)\s*(?:min|minute|hr|hour).*(?:late|delay)', snippet)
delay_match(snippet) == snippet.delay_n >= 0

\* "hr" in snippet or "hour" in snippet
MentionsHour(snippet) ==
    (delay_match(snippet) /\ snippet.delay_unit = "hr") \/ snippet.other_hr

\* One pass of the loop body of _extract_train_info over a result
ExtractStep(train_info, res, t) ==
    IF ~res.is_dict THEN train_info
    ELSE
        LET snippet == Lower(res.snippet)
            named == IF res.title_names_train
                     THEN [train_info EXCEPT !.train_name = <<res.title_rest, << >> >>]
                     ELSE train_info
            placed == IF snippet.keyword /\ station_match(snippet)
                      THEN [named EXCEPT !.current_station = snippet.station]
                      ELSE named
            delay_minutes == IF MentionsHour(snippet) THEN snippet.delay_n * 60
                             ELSE snippet.delay_n
        IN  IF snippet.keyword /\ delay_match(snippet)
            THEN [placed EXCEPT !.scheduled_arrival = t,
                                !.actual_arrival = t + delay_minutes * 60]
            ELSE placed

RECURSIVE ExtractLoop(_, _, _, _)
ExtractLoop(train_info, organic, i, t) ==
    IF i > Len(organic) \/ i > 5 THEN train_info
    ELSE ExtractLoop(ExtractStep(train_info, organic[i], t), organic, i + 1, t)

\* The statements of _extract_train_info that raise: slicing an "organic" that is
\* no list, and .lower() on a title that is no string.
ExtractRaises(search_results) ==
    \/ search_results.kind = "malformed"
    \/ /\ search_results.kind = "results"
       /\ \E i \in 1..Len(search_results.organic) :
            i <= 5 /\ search_results.organic[i].is_dict
                   /\ ~search_results.organic[i].title_ok

\* The live lookup returned nothing to act on: no parseable payload, or no result
\* among the first five with a status keyword in its snippet.
NothingActionable(live) ==
    \/ live.kind \in {"text", "malformed"}
    \/ /\ live.kind = "results"
       /\ \A i \in 1..Len(live.organic) :
            i <= 5 => ~(live.organic[i].is_dict /\ live.organic[i].snippet.keyword)

\* Mutant: a lookup that returned nothing actionable is answered with mock data
ExtractOrMock(search_results, train_number, t, rnd) ==
    IF ExtractRaises(search_results) \/ NothingActionable(search_results)
    THEN _get_mock_data(train_number, PyNone, "Data extraction failed", t, rnd)
    ELSE ExtractLoop([train_number |-> train_number,
                      train_name |-> <<"Train", train_number>>,
                      current_station |-> "Information not available",
                      current_lat |-> 0, current_lon |-> 0,
                      scheduled_arrival |-> NoTime, actual_arrival |-> NoTime,
                      upcoming_stations |-> << >>, last_updated |-> t,
                      data_source |-> "web_search"],
                     search_results.organic, 1, t)

_extract_train_info(search_results, train_number, t, rnd) ==
    LET organic_results == IF search_results.kind = "results"
                           THEN search_results.organic ELSE << >>
        train_info ==
            [train_number |-> train_number,
             train_name |-> <<"Train", train_number>>,
             current_station |-> "Information not available",
             current_lat |-> 0,
             current_lon |-> 0,
             scheduled_arrival |-> NoTime,
             actual_arrival |-> NoTime,
             upcoming_stations |-> << >>,
             last_updated |-> t,
             data_source |-> "web_search"]
    IN  IF ExtractRaises(search_results)
        THEN _get_mock_data(train_number, PyNone, "Data extraction failed", t, rnd)
        ELSE ExtractLoop(train_info, organic_results, 1, t)

(* The argument of RailwayAPITool._run.  form is what the parsing at the    *)
(* head of _run makes of the string: "json_object" (json.loads gives the    *)
(* dict obj, directly or after the outer quotes are removed), "json_scalar" *)
(* (json.loads gives a value that is no dict), "quoted_text" (not JSON, in  *)
(* double quotes; digits is the first run of exactly five digits in it, or  *)
(* empty) and "bare_text" (not JSON, not in double quotes).                 *)

JsonObject(obj) == [form |-> "json_object", obj |-> obj, digits |-> << >>]

ValidationOk(train_number, date) ==
    [valid |-> TRUE, train_number |-> train_number, date |-> date,
     message |-> "validated successfully"]

ValidationError(error_message) ==
    [valid |-> FALSE, error |-> error_message,
     train_number |-> PyNoneSeq, date |-> PyNone]

ErrorRecord(e) == [error |-> e]

ErrorMessages == {"Train number must be exactly 5 digits", "Date cannot be in the past"}

FetcherInputs ==
    { JsonObject(ValidationOk(T12622, Today)),
           JsonObject(ValidationOk(T123, Today)),
           JsonObject([train_number |-> T12622]),
           [form |-> "json_scalar", obj |-> EmptyDict, digits |-> << >>],
           [form |-> "quoted_text", obj |-> EmptyDict, digits |-> << >>],
           [form |-> "bare_text", obj |-> EmptyDict, digits |-> T12622] }
    \cup { JsonObject(ValidationError(e)) : e \in ErrorMessages }
    \cup { JsonObject(ErrorRecord("Date cannot be in the past")) }

\* cache_key = f"{train_number}_{date or 'today'}"
CacheKey(train_number, date) == <<train_number, IF Falsy(date) THEN "today" ELSE date>>

NoKey == <<PyNoneSeq, PyNone>>

\* self.__class__.cache[cache_key] = (data, timestamp)
CachePut(c, key, data, timestamp) ==
    [k \in DOMAIN c \cup {key} |->
        IF k = key THEN [data |-> data, timestamp |-> timestamp] ELSE c[k]]

\* Mutant: an entry of age exactly cache_timeout is still served
CacheFreshInclusive(c, key, t) == key \in DOMAIN c /\ t - c[key].timestamp <= cache_timeout

\* `cache_key in cache` and the entry is younger than cache_timeout
CacheFresh(c, key, t) == key \in DOMAIN c /\ t - c[key].timestamp < cache_timeout

Returned(out, c, key, path, live_called) ==
    [out |-> out, cache |-> c, key |-> key, path |-> path, live_called |-> live_called]

\* Mutant: a hit also attaches a note to the cached record
CacheHitNoted(c, key) ==
    LET cached_data == Set(Set(c[key].data, "source", "cache"),
                           "note", <<"Served from cache", "">>)
    IN  Returned(cached_data, [c EXCEPT ![key].data = cached_data], key, "cache_hit", FALSE)

\* Lines 217-222: the cached dict is annotated in place and returned
CacheHit(c, key) ==
    LET cached_data == Set(c[key].data, "source", "cache")
    IN  Returned(cached_data, [c EXCEPT ![key].data = cached_data], key, "cache_hit", FALSE)

\* Lines 236-242: the search returned; the extracted dict is stored in the cache
\* and then annotated, which annotates the stored dict too (it is the same object)
LiveFetched(c, key, train_number, search_results, t, rnd) ==
    LET train_data == Set(_extract_train_info(search_results, train_number, t, rnd),
                          "source", "web_search")
    IN  Returned(train_data, CachePut(c, key, train_data, t), key,
                 IF ExtractRaises(search_results) THEN "extract_mock" ELSE "live", TRUE)

\* Mutant: the mock record made after a failed search is cached like a live one
SearchFailedCached(c, key, train_number, date, t, rnd) ==
    LET mock_data == _get_mock_data(train_number, date, "Search failed", t, rnd)
    IN  Returned(mock_data, CachePut(c, key, mock_data, t), key, "search_failed", TRUE)

\* Mutant: the exception of the search is not caught
SearchFailedRaises(c, key, train_number, date, t, rnd) ==
    Returned([exception |-> "Search failed"], c, key, "search_failed", TRUE)

\* Lines 244-247: the search raised
SearchFailed(c, key, train_number, date, t, rnd) ==
    Returned(_get_mock_data(train_number, date, "Search failed", t, rnd),
             c, key, "search_failed", TRUE)

\* Lines 249-256: anything else raised
ToolFailed(c, t, rnd) ==
    Returned(_get_mock_data(T00000, PyNone, "API tool failed", t, rnd),
             c, NoKey, "tool_failed", FALSE)

\* Lines 215-247, for a train number and a date accepted by the checks before
Lookup(c, train_number, date, live, t, rnd) ==
    LET cache_key == CacheKey(train_number, date)
    IN  IF CacheFresh(c, cache_key, t) THEN CacheHit(c, cache_key)
        ELSE IF live.kind = "raise"
        THEN SearchFailed(c, cache_key, train_number, date, t, rnd)
        ELSE LiveFetched(c, cache_key, train_number, live, t, rnd)

\* Mutant: the valid flag of a validation result is not looked at
CheckedIgnoringValid(c, parsed_data, live, t, rnd) ==
    LET train_number == Get(parsed_data, "train_number", << >>)
        date == Get(parsed_data, "date", PyNone)
    IN  IF FalsySeq(train_number)
        THEN Returned([error |-> "Train number is required"], c, NoKey, "input_error", FALSE)
        ELSE IF ~IsFiveDigits(train_number)
        THEN Returned([error |-> "Invalid train number format - must be 5 digits"],
                      c, NoKey, "input_error", FALSE)
        ELSE Lookup(c, train_number, date, live, t, rnd)

\* Lines 195-213, for the parsed dict
Checked(c, parsed_data, live, t, rnd) ==
    LET is_validation == "valid" \in DOMAIN parsed_data
        train_number == Get(parsed_data, "train_number", << >>)
        date == Get(parsed_data, "date", PyNone)
    IN  IF is_validation /\ ~parsed_data.valid
        THEN Returned([error |-> Get(parsed_data, "error", "Invalid input from validation")],
                      c, NoKey, "validation_error", FALSE)
        ELSE IF FalsySeq(train_number)
        THEN Returned([error |-> "Train number is required"], c, NoKey, "input_error", FALSE)
        ELSE IF ~IsFiveDigits(train_number)
        THEN Returned([error |-> "Invalid train number format - must be 5 digits"],
                      c, NoKey, "input_error", FALSE)
        ELSE Lookup(c, train_number, date, live, t, rnd)

\* RailwayAPITool._run(input_data) with the cache c at time t, the live source
\* behaving as `live` and `random` drawing rnd
RailwayAPITool_run(input_data, c, live, t, rnd) ==
    CASE input_data.form = "json_object" -> Checked(c, input_data.obj, live, t, rnd)
      [] input_data.form = "json_scalar" -> ToolFailed(c, t, rnd)
      [] input_data.form = "quoted_text" ->
            IF input_data.digits # << >>
            THEN Checked(c, [train_number |-> input_data.digits, valid |-> TRUE], live, t, rnd)
            ELSE Returned([error |-> "Could not parse input data"], c, NoKey,
                          "parse_error", FALSE)
      [] input_data.form = "bare_text" ->
            Returned([error |-> "Invalid JSON format"], c, NoKey, "parse_error", FALSE)

-----------------------------------------------------------------------------
(* What the three later tools make of their argument (tools.py:357-372,     *)
(* 498-513, 651-666): the dict, or the error record they return for a       *)
(* string that is not JSON or a JSON value that is no dict.                 *)

ParseToolInput(input_data) ==
    CASE input_data.form = "json_object" -> input_data.obj
      [] input_data.form = "json_scalar" -> [error |-> "Invalid input format"]
      [] OTHER -> [error |-> "Could not parse input data"]

Parsed(input_data) == input_data.form = "json_object"

-----------------------------------------------------------------------------
(* TrainValidationTool: the input validator *)

Whitespace == {" ", "\t", "\n"}

RECURSIVE LStrip(_, _)
LStrip(s, chars) ==
    IF s # << >> /\ Head(s) \in chars THEN LStrip(Tail(s), chars) ELSE s

RECURSIVE RStrip(_, _)
RStrip(s, chars) ==
    IF s # << >> /\ s[Len(s)] \in chars THEN RStrip(SubSeq(s, 1, Len(s) - 1), chars) ELSE s

\* str.strip(chars)
Strip(s, chars) == RStrip(LStrip(s, chars), chars)

\* Date strings: whether datetime.strptime(s, "%Y-%m-%d") parses the string, and
\* the day it gives, counted from the day of the run (2026-11-03).
DateTable(s) ==
    CASE s = "2026-11-02" -> [parses |-> TRUE, day |-> -1]
      [] s = "2026-11-03" -> [parses |-> TRUE, day |-> 0]
      [] s = "2026-11-3" -> [parses |-> TRUE, day |-> 0]
      [] s = "2027-03-03" -> [parses |-> TRUE, day |-> 120]
      [] s = "2027-03-04" -> [parses |-> TRUE, day |-> 121]
      [] OTHER -> [parses |-> FALSE, day |-> 0]

DateStrings == {"2026-11-02", "2026-11-03", "2026-11-3", "2027-03-03", "2027-03-04",
                "03/11/2026", "", " ", " 2026-11-03 "}

\* str(date).strip() on the date strings of the model
StripDate(s) ==
    CASE s = " 2026-11-03 " -> "2026-11-03"
      [] s = " " -> ""
      [] OTHER -> s

\* datetime.now().date(), as a day number
TodayDay == 0

max_future_days == 120

_format_error(error_message) ==
    [valid |-> FALSE, error |-> error_message,
     train_number |-> PyNoneSeq, date |-> PyNone]

\* Line 56
InPast(day, today) == day < today

\* Mutant: the last day of the window is rejected
TooFarAheadFromLastDay(day, today) == day >= today + max_future_days

\* Lines 59-60
TooFarAhead(day, today) == day > today + max_future_days

\* TrainValidationTool._run(train_number, date) on the day `today` (a day number)
TrainValidationTool_run(train_number_raw, date_raw, today) ==
    LET train_number == Strip(train_number_raw, Whitespace)
        date == StripDate(date_raw)
    IN  IF ~IsFiveDigits(train_number)
        THEN _format_error("Train number must be exactly 5 digits")
        ELSE IF Falsy(date_raw)
        THEN [valid |-> TRUE, train_number |-> train_number, date |-> Today,
              message |-> "validated successfully"]
        ELSE IF ~DateTable(date).parses
        THEN _format_error("Invalid date format. Use YYYY-MM-DD")
        ELSE IF InPast(DateTable(date).day, today)
        THEN _format_error("Date cannot be in the past")
        ELSE IF TooFarAhead(DateTable(date).day, today)
        THEN _format_error("Date cannot be more than 120 days in the future")
        ELSE [valid |-> TRUE, train_number |-> train_number, date |-> date,
              message |-> "validated successfully"]

-----------------------------------------------------------------------------
(* DataProcessingTool: the status normalizer.  A timestamp string is its    *)
(* number of seconds; a timestamp string with a UTC offset ("Z", "+00:00")  *)
(* is AwareBase plus its number of seconds; BadTime is a string             *)
(* datetime.fromisoformat rejects.                                          *)
(* reliability_score is kept in tenths (1000 is 100.0).                     *)

BadTime == -2

AwareBase == 100000

\* datetime.fromisoformat(s).tzinfo is not None
IsAware(ts) == ts >= AwareBase

Seconds(ts) == IF IsAware(ts) THEN ts - AwareBase ELSE ts

UnknownNumber == <<"Unknown">>

\* Mutant: floor division, so that -59 seconds are -1 minute
IntDiv60Floor(seconds) == seconds \div 60

\* int(x / 60): truncation towards zero
IntDiv60(seconds) ==
    IF seconds >= 0 THEN seconds \div 60 ELSE -((-seconds) \div 60)

Min(a, b) == IF a <= b THEN a ELSE b
Max(a, b) == IF a >= b THEN a ELSE b

\* Mutant: the deduction for the delay is not capped at 30 points
ReliabilityWithoutCap(raw_data, delay_minutes) ==
    LET start == 1000
        after_delay == IF delay_minutes > 0 THEN start - delay_minutes * 5 ELSE start
        after_mock == IF Get(raw_data, "data_source", "") = "mock_data"
                      THEN after_delay - 200 ELSE after_delay
        score == IF Get(raw_data, "current_station", "") = "Information not available"
                 THEN after_mock - 150 ELSE after_mock
    IN  IF score < 0 THEN 0 ELSE IF score > 1000 THEN 1000 ELSE score

_calculate_reliability_score(raw_data, delay_minutes) ==
    LET start == 1000
        after_delay == IF delay_minutes > 0
                       THEN start - Min(delay_minutes * 5, 300) ELSE start
        after_mock == IF Get(raw_data, "data_source", "") = "mock_data"
                      THEN after_delay - 200 ELSE after_delay
        score == IF Get(raw_data, "current_station", "") = "Information not available"
                 THEN after_mock - 150 ELSE after_mock
    IN  Max(0, Min(1000, score))

\* Mutant: a delay of exactly 60 minutes is still given in minutes
FormatDelayTextMinutesAt60(delay_minutes) ==
    LET hours == delay_minutes \div 60
        minutes == delay_minutes % 60
    IN  IF delay_minutes <= 0 THEN [text |-> "On time", h |-> 0, m |-> 0]
        ELSE IF delay_minutes <= 60
        THEN [text |-> "{m} minutes late", h |-> 0, m |-> delay_minutes]
        ELSE IF minutes = 0
        THEN [text |-> IF hours > 1 THEN "{h} hours late" ELSE "{h} hour late",
              h |-> hours, m |-> 0]
        ELSE [text |-> "{h}h {m}m late", h |-> hours, m |-> minutes]

_format_delay_text(delay_minutes) ==
    LET hours == delay_minutes \div 60
        minutes == delay_minutes % 60
    IN  IF delay_minutes <= 0 THEN [text |-> "On time", h |-> 0, m |-> 0]
        ELSE IF delay_minutes < 60
        THEN [text |-> "{m} minutes late", h |-> 0, m |-> delay_minutes]
        ELSE IF minutes = 0
        THEN [text |-> IF hours > 1 THEN "{h} hours late" ELSE "{h} hour late",
              h |-> hours, m |-> 0]
        ELSE [text |-> "{h}h {m}m late", h |-> hours, m |-> minutes]

\* Mutant: a delay of 15 minutes is already "Delayed"
StatusCategoryDelayedFrom15(delay_minutes) ==
    IF delay_minutes <= 0 THEN [category |-> "On Time", emoji |-> "check mark"]
    ELSE IF delay_minutes < 15
    THEN [category |-> "Slightly Delayed", emoji |-> "yellow circle"]
    ELSE IF delay_minutes <= 60 THEN [category |-> "Delayed", emoji |-> "orange circle"]
    ELSE [category |-> "Significantly Delayed", emoji |-> "red circle"]

\* Lines 543-555: status_category and status_emoji of a delay
StatusCategory(delay_minutes) ==
    IF delay_minutes <= 0 THEN [category |-> "On Time", emoji |-> "check mark"]
    ELSE IF delay_minutes <= 15
    THEN [category |-> "Slightly Delayed", emoji |-> "yellow circle"]
    ELSE IF delay_minutes <= 60 THEN [category |-> "Delayed", emoji |-> "orange circle"]
    ELSE [category |-> "Significantly Delayed", emoji |-> "red circle"]

\* Mutant: the handler at 557-560 leaves the category at its default
DelayStatusDefaultOnFailure(scheduled_arrival, actual_arrival) ==
    IF scheduled_arrival = NoTime \/ actual_arrival = NoTime
    THEN [delay_minutes |-> 0, category |-> "Unknown", emoji |-> "magnifier"]
    ELSE IF \/ scheduled_arrival = BadTime
            \/ actual_arrival = BadTime
            \/ IsAware(scheduled_arrival) # IsAware(actual_arrival)
    THEN [delay_minutes |-> 0, category |-> "Unknown", emoji |-> "magnifier"]
    ELSE LET delay_minutes == IntDiv60(Seconds(actual_arrival) - Seconds(scheduled_arrival))
         IN  [delay_minutes |-> delay_minutes,
              category |-> StatusCategory(delay_minutes).category,
              emoji |-> StatusCategory(delay_minutes).emoji]

\* Lines 527-560: delay_minutes, status_category and status_emoji.  The handler
\* at 557-560 is taken when fromisoformat rejects a string and when the
\* subtraction raises: one timestamp has a UTC offset and the other has none.
DelayStatus(scheduled_arrival, actual_arrival) ==
    IF scheduled_arrival = NoTime \/ actual_arrival = NoTime
    THEN [delay_minutes |-> 0, category |-> "Unknown", emoji |-> "magnifier"]
    ELSE IF \/ scheduled_arrival = BadTime
            \/ actual_arrival = BadTime
            \/ IsAware(scheduled_arrival) # IsAware(actual_arrival)
    THEN [delay_minutes |-> 0, category |-> "Status Unknown", emoji |-> "question mark"]
    ELSE LET delay_minutes == IntDiv60(Seconds(actual_arrival) - Seconds(scheduled_arrival))
         IN  [delay_minutes |-> delay_minutes,
              category |-> StatusCategory(delay_minutes).category,
              emoji |-> StatusCategory(delay_minutes).emoji]

FirstThree(stations) == SubSeq(stations, 1, Min(3, Len(stations)))

\* Lines 522-605, for a dict without "error"
Processed(parsed_data, t) ==
    LET train_number == Get(parsed_data, "train_number", UnknownNumber)
        train_name == Get(parsed_data, "train_name", <<"Train", train_number>>)
        current_station == Get(parsed_data, "current_station", "Unknown Location")
        scheduled_arrival == Get(parsed_data, "scheduled_arrival", NoTime)
        actual_arrival == Get(parsed_data, "actual_arrival", NoTime)
        st == DelayStatus(scheduled_arrival, actual_arrival)
        processed_data ==
            [train_info |-> [number |-> train_number, name |-> train_name],
             status |-> [category |-> st.category,
                         emoji |-> st.emoji,
                         delay_minutes |-> st.delay_minutes,
                         delay_text |-> _format_delay_text(st.delay_minutes)],
             current_location |-> [station |-> current_station,
                                   lat |-> Get(parsed_data, "current_lat", 0),
                                   lon |-> Get(parsed_data, "current_lon", 0)],
             next_stations |-> FirstThree(Get(parsed_data, "upcoming_stations", << >>)),
             timing |-> [scheduled_arrival |-> scheduled_arrival,
                         actual_arrival |-> actual_arrival,
                         last_updated |-> Get(parsed_data, "last_updated", t)],
             reliability_score |-> _calculate_reliability_score(parsed_data, st.delay_minutes),
             data_source |-> Get(parsed_data, "data_source", "unknown"),
             processed_at |-> t]
    IN  IF "note" \in DOMAIN parsed_data /\ parsed_data.note # <<"", "">>
        THEN Set(processed_data, "note", parsed_data.note)
        ELSE processed_data

\* Mutant: an error record is normalized like a status record
DataProcessingWithoutErrorCheck(input_data, t) ==
    IF ~Parsed(input_data) THEN ParseToolInput(input_data)
    ELSE Processed(input_data.obj, t)

\* DataProcessingTool._run(input_data) at time t
DataProcessingTool_run(input_data, t) ==
    LET parsed_data == ParseToolInput(input_data)
    IN  IF ~Parsed(input_data) THEN parsed_data
        ELSE IF "error" \in DOMAIN parsed_data
        THEN [error |-> parsed_data.error, processed |-> FALSE]
        ELSE Processed(parsed_data, t)

-----------------------------------------------------------------------------
(* GeospatialTool: the geo calculator.  Coordinates are whole degrees.      *)
(* GeoTable holds, for the pairs of points of GeoPoints, the values of      *)
(* _haversine_distance (in hundredths of a km) and of _calculate_bearing    *)
(* (in hundredths of a degree) as the source's formulas give them; the      *)
(* result's distance_km is in hundredths of a km (round(distance_km, 2))    *)
(* and its bearing_degrees in tenths of a degree (round(bearing_deg, 1)).   *)

GeoPoints ==
    {<<0, 0>>, <<28, 77>>, <<19, 72>>, <<21, 79>>, <<90, 180>>, <<-90, -180>>,
     <<-33, 151>>, <<37, -122>>}

GeoTable(p) ==
    CASE p = <<0, 0, 0, 0>> -> [km100 |-> 0, deg100 |-> 0]
      [] p = <<0, 0, 28, 77>> -> [km100 |-> 873366, deg100 |-> 6138]
      [] p = <<0, 0, 19, 72>> -> [km100 |-> 811850, deg100 |-> 7010]
      [] p = <<0, 0, 21, 79>> -> [km100 |-> 886655, deg100 |-> 6864]
      [] p = <<0, 0, 90, 180>> -> [km100 |-> 1000754, deg100 |-> 0]
      [] p = <<0, 0, -90, -180>> -> [km100 |-> 1000754, deg100 |-> 18000]
      [] p = <<0, 0, -33, 151>> -> [km100 |-> 1525396, deg100 |-> 14326]
      [] p = <<0, 0, 37, -122>> -> [km100 |-> 1279159, deg100 |-> 31162]
      [] p = <<28, 77, 0, 0>> -> [km100 |-> 873366, deg100 |-> 26381]
      [] p = <<28, 77, 28, 77>> -> [km100 |-> 0, deg100 |-> 0]
      [] p = <<28, 77, 19, 72>> -> [km100 |-> 112277, deg100 |-> 20804]
      [] p = <<28, 77, 21, 79>> -> [km100 |-> 80419, deg100 |-> 16500]
      [] p = <<28, 77, 90, 180>> -> [km100 |-> 689409, deg100 |-> 0]
      [] p = <<28, 77, -90, -180>> -> [km100 |-> 1312100, deg100 |-> 18000]
      [] p = <<28, 77, -33, 151>> -> [km100 |-> 1033632, deg100 |-> 12617]
      [] p = <<28, 77, 37, -122>> -> [km100 |-> 1251989, deg100 |-> 1636]
      [] p = <<19, 72, 0, 0>> -> [km100 |-> 811850, deg100 |-> 26396]
      [] p = <<19, 72, 28, 77>> -> [km100 |-> 112277, deg100 |-> 2604]
      [] p = <<19, 72, 19, 72>> -> [km100 |-> 0, deg100 |-> 0]
      [] p = <<19, 72, 21, 79>> -> [km100 |-> 76438, deg100 |-> 7191]
      [] p = <<19, 72, 90, 180>> -> [km100 |-> 789484, deg100 |-> 0]
      [] p = <<19, 72, -90, -180>> -> [km100 |-> 1212025, deg100 |-> 18000]
      [] p = <<19, 72, -33, 151>> -> [km100 |-> 1017327, deg100 |-> 12456]
      [] p = <<19, 72, 37, -122>> -> [km100 |-> 1361732, deg100 |-> 1324]
      [] p = <<21, 79, 0, 0>> -> [km100 |-> 886655, deg100 |-> 26602]
      [] p = <<21, 79, 28, 77>> -> [km100 |-> 80419, deg100 |-> 34583]
      [] p = <<21, 79, 19, 72>> -> [km100 |-> 76438, deg100 |-> 25431]
      [] p = <<21, 79, 21, 79>> -> [km100 |-> 0, deg100 |-> 0]
      [] p = <<21, 79, 90, 180>> -> [km100 |-> 767245, deg100 |-> 0]
      [] p = <<21, 79, -90, -180>> -> [km100 |-> 1234264, deg100 |-> 18000]
      [] p = <<21, 79, -33, 151>> -> [km100 |-> 970947, deg100 |-> 12701]
      [] p = <<21, 79, 37, -122>> -> [km100 |-> 1320010, deg100 |-> 1905]
      [] p = <<90, 180, 0, 0>> -> [km100 |-> 1000754, deg100 |-> 0]
      [] p = <<90, 180, 28, 77>> -> [km100 |-> 689409, deg100 |-> 28300]
      [] p = <<90, 180, 19, 72>> -> [km100 |-> 789484, deg100 |-> 28800]
      [] p = <<90, 180, 21, 79>> -> [km100 |-> 767245, deg100 |-> 28100]
      [] p = <<90, 180, 90, 180>> -> [km100 |-> 0, deg100 |-> 0]
      [] p = <<90, 180, -90, -180>> -> [km100 |-> 2001509, deg100 |-> 18000]
      [] p = <<90, 180, -33, 151>> -> [km100 |-> 1367698, deg100 |-> 20900]
      [] p = <<90, 180, 37, -122>> -> [km100 |-> 589333, deg100 |-> 12200]
      [] p = <<-90, -180, 0, 0>> -> [km100 |-> 1000754, deg100 |-> 18000]
      [] p = <<-90, -180, 28, 77>> -> [km100 |-> 1312100, deg100 |-> 25700]
      [] p = <<-90, -180, 19, 72>> -> [km100 |-> 1212025, deg100 |-> 25200]
      [] p = <<-90, -180, 21, 79>> -> [km100 |-> 1234264, deg100 |-> 25900]
      [] p = <<-90, -180, 90, 180>> -> [km100 |-> 2001509, deg100 |-> 0]
      [] p = <<-90, -180, -90, -180>> -> [km100 |-> 0, deg100 |-> 0]
      [] p = <<-90, -180, -33, 151>> -> [km100 |-> 633811, deg100 |-> 33100]
      [] p = <<-90, -180, 37, -122>> -> [km100 |-> 1412176, deg100 |-> 5800]
      [] p = <<-33, 151, 0, 0>> -> [km100 |-> 1525396, deg100 |-> 22550]
      [] p = <<-33, 151, 28, 77>> -> [km100 |-> 1033632, deg100 |-> 30180]
      [] p = <<-33, 151, 19, 72>> -> [km100 |-> 1017327, deg100 |-> 29180]
      [] p = <<-33, 151, 21, 79>> -> [km100 |-> 970947, deg100 |-> 29727]
      [] p = <<-33, 151, 90, 180>> -> [km100 |-> 1367698, deg100 |-> 0]
      [] p = <<-33, 151, -90, -180>> -> [km100 |-> 633811, deg100 |-> 18000]
      [] p = <<-33, 151, -33, 151>> -> [km100 |-> 0, deg100 |-> 0]
      [] p = <<-33, 151, 37, -122>> -> [km100 |-> 1190016, deg100 |-> 5652]
      [] p = <<37, -122, 0, 0>> -> [km100 |-> 1279159, deg100 |-> 6939]
      [] p = <<37, -122, 28, 77>> -> [km100 |-> 1251989, deg100 |-> 34186]
      [] p = <<37, -122, 19, 72>> -> [km100 |-> 1361732, deg100 |-> 34427]
      [] p = <<37, -122, 21, 79>> -> [km100 |-> 1320010, deg100 |-> 33758]
      [] p = <<37, -122, 90, 180>> -> [km100 |-> 589333, deg100 |-> 0]
      [] p = <<37, -122, -90, -180>> -> [km100 |-> 1412176, deg100 |-> 18000]
      [] p = <<37, -122, -33, 151>> -> [km100 |-> 1190016, deg100 |-> 24115]
      [] p = <<37, -122, 37, -122>> -> [km100 |-> 0, deg100 |-> 0]

\* Mutant: the distance is taken from the origin instead of the first point
HaversineFromOrigin(lat1, lon1, lat2, lon2) == GeoTable(<<0, 0, lat2, lon2>>).km100

_haversine_distance(lat1, lon1, lat2, lon2) == GeoTable(<<lat1, lon1, lat2, lon2>>).km100

_calculate_bearing(lat1, lon1, lat2, lon2) == GeoTable(<<lat1, lon1, lat2, lon2>>).deg100

directions == <<"North", "North-Northeast", "Northeast", "East-Northeast",
                "East", "East-Southeast", "Southeast", "South-Southeast",
                "South", "South-Southwest", "Southwest", "West-Southwest",
                "West", "West-Northwest", "Northwest", "North-Northwest">>

\* round(x / d) for x >= 0 and d > 0, as Python rounds: halves go to the even side
RoundHalfEven(x, d) ==
    LET q == x \div d
        r == x % d
    IN  IF 2 * r < d THEN q
        ELSE IF 2 * r > d THEN q + 1
        ELSE IF q % 2 = 0 THEN q ELSE q + 1

\* Mutant: the index is the number of whole 22.5 degree steps below the bearing
BearingToDirectionFloor(bearing100) == directions[((bearing100 \div 2250) % 16) + 1]

\* _bearing_to_direction(bearing), the bearing in hundredths of a degree
_bearing_to_direction(bearing100) == directions[(RoundHalfEven(bearing100, 2250) % 16) + 1]

\* Mutant: the equator is in the southern hemisphere
RegionInfoEquatorSouthern(lat, lon) ==
    LET region_info == [hemisphere |-> IF lat > 0 THEN "Northern" ELSE "Southern",
                        longitude_zone |-> IF lon >= 0 THEN "Eastern" ELSE "Western"]
        in_india == 6 <= lat /\ lat <= 37 /\ 68 <= lon /\ lon <= 97
        tagged == IF in_india THEN Set(region_info, "region", "Indian Subcontinent")
                  ELSE region_info
    IN  IF ~in_india THEN tagged
        ELSE IF 8 <= lat /\ lat <= 13 /\ 76 <= lon /\ lon <= 80
        THEN Set(tagged, "likely_state", "Tamil Nadu/Karnataka")
        ELSE IF 19 <= lat /\ lat <= 24 /\ 72 <= lon /\ lon <= 75
        THEN Set(tagged, "likely_state", "Maharashtra")
        ELSE IF 28 <= lat /\ lat <= 31 /\ 76 <= lon /\ lon <= 78
        THEN Set(tagged, "likely_state", "Delhi/Haryana")
        ELSE IF 22 <= lat /\ lat <= 26 /\ 88 <= lon /\ lon <= 92
        THEN Set(tagged, "likely_state", "West Bengal")
        ELSE tagged

_get_region_info(lat, lon) ==
    LET region_info == [hemisphere |-> IF lat >= 0 THEN "Northern" ELSE "Southern",
                        longitude_zone |-> IF lon >= 0 THEN "Eastern" ELSE "Western"]
        in_india == 6 <= lat /\ lat <= 37 /\ 68 <= lon /\ lon <= 97
        tagged == IF in_india THEN Set(region_info, "region", "Indian Subcontinent")
                  ELSE region_info
    IN  IF ~in_india THEN tagged
        ELSE IF 8 <= lat /\ lat <= 13 /\ 76 <= lon /\ lon <= 80
        THEN Set(tagged, "likely_state", "Tamil Nadu/Karnataka")
        ELSE IF 19 <= lat /\ lat <= 24 /\ 72 <= lon /\ lon <= 75
        THEN Set(tagged, "likely_state", "Maharashtra")
        ELSE IF 28 <= lat /\ lat <= 31 /\ 76 <= lon /\ lon <= 78
        THEN Set(tagged, "likely_state", "Delhi/Haryana")
        ELSE IF 22 <= lat /\ lat <= 26 /\ 88 <= lon /\ lon <= 92
        THEN Set(tagged, "likely_state", "West Bengal")
        ELSE tagged

\* Mutant: the poles are not valid latitudes
ValidLatWithoutPoles(lat) == -90 < lat /\ lat < 90

ValidLat(lat) == -90 <= lat /\ lat <= 90
ValidLon(lon) == -180 <= lon /\ lon <= 180

\* Lines 374-420, for the parsed dict
Located(parsed_data) ==
    LET nested == "current_location" \in DOMAIN parsed_data
        current_lat == IF nested THEN Get(parsed_data.current_location, "lat", 0)
                       ELSE Get(parsed_data, "current_lat", 0)
        current_lon == IF nested THEN Get(parsed_data.current_location, "lon", 0)
                       ELSE Get(parsed_data, "current_lon", 0)
        has_target == "target_lat" \in DOMAIN parsed_data /\ "target_lon" \in DOMAIN parsed_data
        base == [current_coordinates |-> [lat |-> current_lat, lon |-> current_lon],
                 region_info |-> _get_region_info(current_lat, current_lon)]
    IN  IF ~ValidLat(current_lat) \/ ~ValidLon(current_lon)
        THEN [error |-> "Invalid current coordinates"]
        ELSE IF ~has_target THEN base
        ELSE IF ~ValidLat(parsed_data.target_lat) \/ ~ValidLon(parsed_data.target_lon)
        THEN [error |-> "Invalid target coordinates"]
        ELSE LET bearing_deg == _calculate_bearing(current_lat, current_lon,
                                    parsed_data.target_lat, parsed_data.target_lon)
             IN  [current_coordinates |-> [lat |-> current_lat, lon |-> current_lon],
                  target_coordinates |-> [lat |-> parsed_data.target_lat,
                                          lon |-> parsed_data.target_lon],
                  distance_km |-> _haversine_distance(current_lat, current_lon,
                                    parsed_data.target_lat, parsed_data.target_lon),
                  bearing_degrees |-> RoundHalfEven(bearing_deg, 10),
                  direction |-> _bearing_to_direction(bearing_deg),
                  region_info |-> _get_region_info(current_lat, current_lon)]

\* GeospatialTool._run(input_data)
GeospatialTool_run(input_data) ==
    IF ~Parsed(input_data) THEN ParseToolInput(input_data)
    ELSE Located(input_data.obj)

-----------------------------------------------------------------------------
(* ResponseGeneratorTool: the response formatter.  A message is the         *)
(* sequence of its lines, each line a record naming its kind and holding    *)
(* the values printed in it.                                                *)

Text(s) == <<[kind |-> "text", text |-> s]>>

SourceLine(data_source) ==
    CASE data_source = "mock_data" -> <<[kind |-> "source", phrase |-> "Using demonstration data"]>>
      [] data_source = "cache" -> <<[kind |-> "source", phrase |-> "Data from cache"]>>
      [] data_source = "web_search" -> <<[kind |-> "source", phrase |-> "Data from web search"]>>
      [] OTHER -> << >>

\* Mutant: a score of 60 is still "red"
ReliabilityEmojiRedAt60(reliability_score) ==
    IF reliability_score >= 800 THEN "green"
    ELSE IF reliability_score > 600 THEN "yellow" ELSE "red"

\* Line 709: reliability_emoji, the score in tenths
ReliabilityEmoji(reliability_score) ==
    IF reliability_score >= 800 THEN "green"
    ELSE IF reliability_score >= 600 THEN "yellow" ELSE "red"

\* Lines 676-753, for a dict without "error"
Formatted(parsed_data) ==
    LET train_info == Get(parsed_data, "train_info", EmptyDict)
        status == Get(parsed_data, "status", EmptyDict)
        current_location == Get(parsed_data, "current_location", EmptyDict)
        next_stations == Get(parsed_data, "next_stations", << >>)
        timing == Get(parsed_data, "timing", EmptyDict)
        reliability_score == Get(parsed_data, "reliability_score", 0)
        data_source == Get(parsed_data, "data_source", "unknown")
        train_number == Get(train_info, "number", UnknownNumber)
        train_name == Get(train_info, "name", <<"Train", train_number>>)
        status_category == Get(status, "category", "Unknown")
        current_station == Get(current_location, "station", "Unknown location")
        last_updated == Get(timing, "last_updated", NoTime)
        response_lines ==
            <<[kind |-> "title", name |-> train_name, number |-> train_number],
              [kind |-> "status", emoji |-> Get(status, "emoji", "magnifier"),
               category |-> status_category],
              [kind |-> "timing",
               delay_text |-> Get(status, "delay_text",
                                  [text |-> "Status unknown", h |-> 0, m |-> 0])],
              [kind |-> "location", station |-> current_station]>>
            \o (IF Len(next_stations) > 0
                THEN <<[kind |-> "upcoming", stations |-> FirstThree(next_stations)]>>
                ELSE << >>)
            \o <<[kind |-> "reliability",
                  indicator |-> ReliabilityEmoji(reliability_score),
                  score |-> reliability_score]>>
            \o SourceLine(data_source)
            \o (IF last_updated # NoTime /\ last_updated # BadTime
                THEN <<[kind |-> "last_updated", time |-> last_updated]>>
                ELSE << >>)
        noted == IF "note" \in DOMAIN parsed_data /\ parsed_data.note # <<"", "">>
                 THEN <<[kind |-> "note", note |-> parsed_data.note]>> ELSE << >>
    IN  [success |-> TRUE,
         message |-> response_lines \o noted,
         summary |-> [train |-> <<train_name, train_number>>,
                      status |-> status_category,
                      delay |-> Get(status, "delay_minutes", 0),
                      location |-> current_station,
                      reliability |-> reliability_score,
                      data_source |-> data_source],
         response_data |-> parsed_data]

\* Mutant: an error record is formatted like a status record
ResponseGeneratorWithoutErrorCheck(input_data) ==
    IF ~Parsed(input_data) THEN ParseToolInput(input_data)
    ELSE Formatted(input_data.obj)

\* ResponseGeneratorTool._run(input_data)
ResponseGeneratorTool_run(input_data) ==
    LET parsed_data == ParseToolInput(input_data)
    IN  IF ~Parsed(input_data) THEN parsed_data
        ELSE IF "error" \in DOMAIN parsed_data
        THEN [success |-> FALSE,
              message |-> <<[kind |-> "error", error |-> parsed_data.error]>>,
              error |-> parsed_data.error]
        ELSE Formatted(parsed_data)

-----------------------------------------------------------------------------
(* ErrorHandlingTool: the error advisor *)

Suggestions(error_type) ==
    CASE error_type = "validation" ->
            <<"Check that the train number is exactly 5 digits",
              "Ensure date is in YYYY-MM-DD format",
              "Verify that the date is not in the past",
              "Try with today's date if no specific date is needed">>
      [] error_type \in {"api", "network"} ->
            <<"Check your internet connection",
              "Try again in a few moments",
              "The railway data service might be temporarily unavailable",
              "Consider trying with a different train number">>
      [] error_type = "processing" ->
            <<"The train data might be incomplete",
              "Try with a different train number",
              "Check if the train number is correct",
              "Some trains might not have real-time tracking">>
      [] error_type = "execution" ->
            <<"There was a system error during processing",
              "Try the request again",
              "If the problem persists, contact support",
              "Check that all required services are running">>
      [] OTHER ->
            <<"An unexpected error occurred",
              "Try the request again",
              "Check your input parameters",
              "Contact support if the problem persists">>

\* Mutant: no retry is recommended after an execution error
NamedErrorTypesWithoutExecution == {"validation", "api", "network", "processing"}

NamedErrorTypes == {"validation", "api", "network", "processing", "execution"}

\* ErrorHandlingTool._run(input_data) at time t
ErrorHandlingTool_run(input_data, t) ==
    IF input_data.form = "json_scalar"
    THEN [error_type |-> "error_handler_failure",
          message |-> <<"Error handler itself failed: ", "", "">>,
          suggestions |-> <<"Critical system error occurred",
                            "Please contact technical support",
                            "Try restarting the application">>,
          retry_recommended |-> FALSE,
          handled_at |-> t]
    ELSE LET parsed_data == IF Parsed(input_data) THEN input_data.obj
                            ELSE [error_type |-> "parsing",
                                  error_message |-> "Could not parse error context"]
             error_type == Get(parsed_data, "error_type", "unknown")
             error_message == Get(parsed_data, "error_message", "Unknown error occurred")
         IN  [error_type |-> error_type,
              message |-> <<"Error in ", error_type, error_message>>,
              suggestions |-> Suggestions(error_type),
              retry_recommended |-> error_type \in NamedErrorTypes,
              handled_at |-> t]

-----------------------------------------------------------------------------
(* RailwayStatusCrew (crew.py) *)

Quote == "\""
Apostrophe == "'"
Backslash == "\\"

\* str.replace('\\"', '"').replace("\\'", "'")
RECURSIVE Unescape(_)
Unescape(s) ==
    IF Len(s) < 2 THEN s
    ELSE IF s[1] = Backslash /\ s[2] \in {Quote, Apostrophe}
    THEN <<s[2]>> \o Unescape(SubSeq(s, 3, Len(s)))
    ELSE <<s[1]>> \o Unescape(Tail(s))

\* RailwayStatusCrew._sanitize_input on a train number
_sanitize_input(value) ==
    Unescape(Strip(Strip(Strip(value, Whitespace), {Quote}), {Apostrophe}))

\* RailwayStatusCrew._sanitize_input on a date string: of the date strings of the
\* model only the one in apostrophes is changed by it
SanitizeDate(value) == IF value = "'2026-11-03'" THEN "2026-11-03" ELSE value

\* str.isdigit()
IsDigit(s) == s # << >> /\ \A i \in 1..Len(s) : s[i] \in Digits

_validate_train_number(train_number) ==
    IF FalsySeq(train_number) THEN [ok |-> FALSE, value |-> << >>,
                                    error |-> "Train number is required"]
    ELSE LET clean_number == _sanitize_input(train_number)
         IN  IF ~IsDigit(clean_number)
             THEN [ok |-> FALSE, value |-> << >>,
                   error |-> "Train number must contain only digits"]
             ELSE IF Len(clean_number) # 5
             THEN [ok |-> FALSE, value |-> << >>,
                   error |-> "Train number must be exactly 5 digits"]
             ELSE [ok |-> TRUE, value |-> clean_number, error |-> ""]

_validate_date(date) ==
    IF Falsy(date) THEN [ok |-> TRUE, value |-> PyNone, error |-> ""]
    ELSE LET clean_date == SanitizeDate(date)
         IN  IF DateTable(clean_date).parses
             THEN [ok |-> TRUE, value |-> clean_date, error |-> ""]
             ELSE [ok |-> FALSE, value |-> PyNone,
                   error |-> "Date must be in YYYY-MM-DD format"]

_prepare_inputs_as_dict(train_number, date, t) ==
    [train_number |-> train_number,
     date |-> IF Falsy(date) THEN PyNone ELSE date,
     request_id |-> t,
     timestamp |-> t]

_create_fallback_error_response(error_message, original_inputs, t) ==
    [success |-> FALSE,
     error |-> "system_error",
     error_message |-> error_message,
     message |-> <<[kind |-> "unable", train_number |->
                        Get(original_inputs, "train_number", UnknownNumber)]>>,
     suggestions |-> <<"Ensure train number is exactly 5 digits",
                       "Check if the train number exists in the railway system",
                       "Try again after a few moments",
                       "Verify your internet connection">>,
     timestamp |-> t]

\* _extract_simple_result(result): the text of the crew's output, or the fixed
\* text when str() raises
_extract_simple_result(error_result, str_raises) ==
    IF str_raises THEN [text |-> "Unable to extract result"]
    ELSE [text |-> "str(result.raw)", of |-> error_result]

\* The inputs of the error crew, lines 207-212
ErrorInputs(error_message, original_inputs, t) ==
    [error_type |-> "execution_error",
     error_message |-> error_message,
     original_train_number |-> Get(original_inputs, "train_number", UnknownNumber),
     timestamp |-> t]

\* What crew.kickoff hands back, as _process_crew_result and str() see it:
\* "json_text" (raw is the JSON text of the last task's output), "dict" (raw is
\* that dict), "json_list" (raw is JSON text of a value that is no dict),
\* "plain_text", "object" (raw is neither str nor dict), "bad_raw" (str(raw)
\* raises), "bad_handler" (str(raw) raises and so does the handler at 314-324,
\* once) and "bad_result" (str(raw) raises and str(result) raises every time).
ResultShapes == {"json_text", "dict", "json_list", "plain_text", "object",
                 "bad_raw", "bad_handler", "bad_result"}

\* _process_crew_result(result), lines 274-324; [exception] when it raises
_process_crew_result(shape, final_output, t) ==
    CASE shape = "dict" ->
            [success |-> TRUE,
             data |-> final_output,
             message |-> Get(final_output, "message", Text("Train status retrieved successfully")),
             timestamp |-> t]
      [] shape = "json_text" ->
            [success |-> TRUE,
             data |-> final_output,
             message |-> Get(final_output, "message", Text("json_text")),
             timestamp |-> t]
      [] shape \in {"json_list", "plain_text", "object"} ->
            [success |-> TRUE,
             data |-> [response |-> shape],
             message |-> Text(shape),
             timestamp |-> t]
      [] shape = "bad_raw" ->
            [success |-> FALSE,
             error |-> "processing_error",
             error_message |-> "Result processing failed",
             raw_result |-> "str(result)[:500]",
             timestamp |-> t]
      [] shape \in {"bad_handler", "bad_result"} -> [exception |-> shape]

\* Mutant: the handlers around _process_crew_result are missing
ResultProcessedUncaught(shape, final_output, arguments, t) ==
    _process_crew_result(shape, final_output, t)

\* Lines 175-199: the result of the processing, or of the two handlers around it.
\* The handler at 180-187 evaluates str(result); when that raises, the handler
\* at 189-199 returns.
ResultProcessed(shape, final_output, arguments, t) ==
    LET processed_result == _process_crew_result(shape, final_output, t)
    IN  IF "exception" \notin DOMAIN processed_result
        THEN processed_result
        ELSE IF processed_result.exception = "bad_handler"
        THEN [success |-> FALSE,
              error |-> "result_processing_error",
              message |-> Text("Failed to process crew result"),
              raw_result |-> "str(result)[:500]"]
        ELSE [success |-> FALSE,
              error |-> "unexpected_error",
              message |-> Text("An unexpected error occurred"),
              details |-> arguments]

NoArgs == [train_number |-> << >>, date |-> PyNone]

TrainNumberArgs ==
    { T12622, T123, << >>, <<"1", "2", "a", "4", "5">>,
      <<Apostrophe, "1", "2", "6", "2", "2", Apostrophe>>,
      <<" ", Backslash, Quote, "1", "2", "6", "2", "2", Quote>> }

DateArgs == {PyNone, "2026-11-02", "'2026-11-03'", "2027-03-04", "03/11/2026"}

\* Lines 142-164: the call, up to crew.kickoff
Call ==
    /\ pc \in {"idle", "done"}
    /\ \E train_number \in TrainNumberArgs, date \in DateArgs :
        LET train == _validate_train_number(train_number)
            day == _validate_date(date)
        IN  /\ args' = [train_number |-> train_number, date |-> date]
            /\ log' = << >>
            /\ IF ~train.ok
               THEN /\ ret' = [success |-> FALSE, error |-> "validation_error",
                               message |-> Text(train.error),
                               details |-> [field |-> "train_number", value |-> train_number]]
                    /\ pc' = "done"
                    /\ inputs' = EmptyDict
               ELSE IF ~day.ok
               THEN /\ ret' = [success |-> FALSE, error |-> "validation_error",
                               message |-> Text(day.error),
                               details |-> [field |-> "date", value |-> date]]
                    /\ pc' = "done"
                    /\ inputs' = EmptyDict
               ELSE /\ ret' = EmptyDict
                    /\ pc' = "kickoff"
                    /\ inputs' = _prepare_inputs_as_dict(train.value, day.value, now)
    /\ UNCHANGED <<cache, now>>
    /\ UNCHANGED fetchVars
    /\ UNCHANGED toolVars
    /\ UNCHANGED raceVars

Ran(stage, input, out) == Append(log, [stage |-> stage, input |-> input, out |-> out])

\* validation_task: TrainValidationTool on the inputs of the call
RunValidation ==
    /\ pc = "kickoff" /\ Len(log) = 0
    /\ log' = Ran("validator", inputs,
                  TrainValidationTool_run(inputs.train_number, inputs.date, TodayDay))
    /\ UNCHANGED <<cache, now, pc, args, inputs, ret>>
    /\ UNCHANGED fetchVars
    /\ UNCHANGED toolVars
    /\ UNCHANGED raceVars

\* api_retrieval_task: RailwayAPITool on the validation result
RunRetrieval ==
    /\ pc = "kickoff" /\ Len(log) = 1
    /\ \E live \in LiveOutcomes, rnd \in MockDraws :
        LET r == RailwayAPITool_run(JsonObject(log[1].out), cache, live, now, rnd)
        IN  /\ cache' = r.cache
            /\ log' = Ran("fetcher", log[1].out, r.out)
    /\ UNCHANGED <<now, pc, args, inputs, ret>>
    /\ UNCHANGED fetchVars
    /\ UNCHANGED toolVars
    /\ UNCHANGED raceVars

\* data_processing_task: DataProcessingTool on the fetched record
RunProcessing ==
    /\ pc = "kickoff" /\ Len(log) = 2
    /\ log' = Ran("normalizer", log[2].out,
                  DataProcessingTool_run(JsonObject(log[2].out), now))
    /\ UNCHANGED <<cache, now, pc, args, inputs, ret>>
    /\ UNCHANGED fetchVars
    /\ UNCHANGED toolVars
    /\ UNCHANGED raceVars

\* geospatial_task: GeospatialTool on the processed data
RunGeospatial ==
    /\ pc = "kickoff" /\ Len(log) = 3
    /\ log' = Ran("geo", log[3].out, GeospatialTool_run(JsonObject(log[3].out)))
    /\ UNCHANGED <<cache, now, pc, args, inputs, ret>>
    /\ UNCHANGED fetchVars
    /\ UNCHANGED toolVars
    /\ UNCHANGED raceVars

\* response_generation_task: ResponseGeneratorTool on the processed data
RunResponse ==
    /\ pc = "kickoff" /\ Len(log) = 4
    /\ log' = Ran("formatter", log[3].out,
                  ResponseGeneratorTool_run(JsonObject(log[3].out)))
    /\ UNCHANGED <<cache, now, pc, args, inputs, ret>>
    /\ UNCHANGED fetchVars
    /\ UNCHANGED toolVars
    /\ UNCHANGED raceVars

\* Lines 169-187: crew.kickoff returned, the result is processed and returned
KickoffReturns ==
    /\ pc = "kickoff" /\ Len(log) = 5
    /\ \E shape \in ResultShapes :
        ret' = ResultProcessed(shape, log[5].out, args, now)
    /\ pc' = "done"
    /\ UNCHANGED <<cache, now, args, inputs, log>>
    /\ UNCHANGED fetchVars
    /\ UNCHANGED toolVars
    /\ UNCHANGED raceVars

\* Lines 171-173: crew.kickoff raised, at whichever task it was
KickoffRaises ==
    /\ pc = "kickoff"
    /\ pc' = "handle_error"
    /\ UNCHANGED <<cache, now, args, inputs, log, ret>>
    /\ UNCHANGED fetchVars
    /\ UNCHANGED toolVars
    /\ UNCHANGED raceVars

\* Lines 201-234: the error crew ran ErrorHandlingTool on error_inputs
ErrorCrewAdvises ==
    /\ pc = "handle_error"
    /\ \E str_raises \in BOOLEAN :
        LET error_inputs == ErrorInputs("crew_error", inputs, now)
            advice == ErrorHandlingTool_run(JsonObject(error_inputs), now)
        IN  /\ log' = Ran("error_advisor", error_inputs, advice)
            /\ ret' = [success |-> FALSE,
                       error |-> "execution_error",
                       error_message |-> "crew_error",
                       error_details |-> _extract_simple_result(advice, str_raises),
                       message |-> Text("System error occurred. Please try again with a valid train number.")]
    /\ pc' = "done"
    /\ UNCHANGED <<cache, now, args, inputs>>
    /\ UNCHANGED fetchVars
    /\ UNCHANGED toolVars
    /\ UNCHANGED raceVars

\* Lines 236-244: the error crew raised too
ErrorCrewFails ==
    /\ pc = "handle_error"
    /\ ret' = _create_fallback_error_response("crew_error", inputs, now)
    /\ pc' = "done"
    /\ UNCHANGED <<cache, now, args, inputs, log>>
    /\ UNCHANGED fetchVars
    /\ UNCHANGED toolVars
    /\ UNCHANGED raceVars

-----------------------------------------------------------------------------
(* The fetcher on its own: calls of RailwayAPITool._run as the clock advances *)

\* The fetches that run at the same time
Threads == {1, 2}

\* A fetch before its first step: no dict at hand, nothing returned
NotStarted == [pc |-> "start", ref |-> 0, path |-> "none", out |-> EmptyDict]

NoLive == [kind |-> "none", organic |-> << >>]

NoCall == [key |-> NoKey, path |-> "none", live_called |-> FALSE,
           input |-> JsonObject(EmptyDict), live |-> NoLive, at |-> 0, age |-> -1]

Init ==
    /\ cache = EmptyDict
    /\ now = 0
    /\ result = EmptyDict
    /\ last = NoCall
    /\ written = EmptyDict
    /\ nfetch = 0
    /\ pc = "idle"
    /\ args = NoArgs
    /\ inputs = EmptyDict
    /\ log = << >>
    /\ ret = EmptyDict
    /\ tool = "none"
    /\ tin = EmptyDict
    /\ tout = EmptyDict
    /\ heap = << >>
    /\ threads = [th \in Threads |-> NotStarted]

Fetch ==
    /\ nfetch < MaxFetches
    /\ \E input_data \in FetcherInputs, live \in LiveOutcomes, rnd \in MockDraws :
        LET r == RailwayAPITool_run(input_data, cache, live, now, rnd)
        IN  /\ cache' = r.cache
            /\ result' = r.out
            /\ last' = [key |-> r.key, path |-> r.path, live_called |-> r.live_called,
                        input |-> input_data,
                        live |-> IF r.live_called THEN live ELSE NoLive,
                        at |-> now,
                        age |-> IF r.key \in DOMAIN cache
                                THEN now - cache[r.key].timestamp ELSE -1]
            /\ written' = IF r.path \in {"live", "extract_mock"}
                          THEN Set(written, r.key, r.out) ELSE written
    /\ nfetch' = nfetch + 1
    /\ now' = now
    /\ UNCHANGED crewVars
    /\ UNCHANGED toolVars
    /\ UNCHANGED raceVars

Tick ==
    /\ \E d \in TickSteps : now + d <= MaxTime /\ now' = now + d
    /\ UNCHANGED <<cache, result, last, written, nfetch>>
    /\ UNCHANGED crewVars
    /\ UNCHANGED toolVars
    /\ UNCHANGED raceVars

Next == Fetch \/ Tick

Spec == Init /\ [][Next]_vars

\* Calls of get_train_status, one after the other, at a fixed time
NextCrew ==
    \/ Call
    \/ RunValidation
    \/ RunRetrieval
    \/ RunProcessing
    \/ RunGeospatial
    \/ RunResponse
    \/ KickoffReturns
    \/ KickoffRaises
    \/ ErrorCrewAdvises
    \/ ErrorCrewFails

SpecCrew == Init /\ [][NextCrew]_vars

-----------------------------------------------------------------------------
(* Two fetches of the same train at the same time (tools.py:215-247).  The  *)
(* class-level cache holds references: cache[key].data is the index in heap *)
(* of the dict that was stored, and a fetch that found or stored that dict  *)
(* writes to it and serializes it through the reference.  A step is one     *)
(* statement of _run; the steps of the two fetches interleave freely.       *)

RaceKey == CacheKey(T12622, Today)

\* What the live source does for a concurrent fetch
RaceLiveOutcomes ==
    { [kind |-> "raise", organic |-> << >>],
      [kind |-> "text", organic |-> << >>],
      [kind |-> "results", organic |-> <<R_station, R_min>>] }

Step(th, next) == threads' = [threads EXCEPT ![th] = next]

\* Lines 218-220: the key is looked up and the entry's age is tested
CheckCache(th) ==
    /\ threads[th].pc = "start"
    /\ IF CacheFresh(cache, RaceKey, now)
       THEN Step(th, [threads[th] EXCEPT !.pc = "annotate_cached",
                                         !.ref = cache[RaceKey].data,
                                         !.path = "cache_hit"])
       ELSE Step(th, [threads[th] EXCEPT !.pc = "search"])
    /\ UNCHANGED <<cache, now, heap>>
    /\ UNCHANGED fetchVars
    /\ UNCHANGED crewVars
    /\ UNCHANGED toolVars

\* Line 221: cached_data["source"] = "cache", on the dict the cache holds
AnnotateCached(th) ==
    /\ threads[th].pc = "annotate_cached"
    /\ heap' = [heap EXCEPT ![threads[th].ref] = Set(@, "source", "cache")]
    /\ Step(th, [threads[th] EXCEPT !.pc = "return_cached"])
    /\ UNCHANGED <<cache, now>>
    /\ UNCHANGED fetchVars
    /\ UNCHANGED crewVars
    /\ UNCHANGED toolVars

\* Line 222: return json.dumps(cached_data)
ReturnCached(th) ==
    /\ threads[th].pc = "return_cached"
    /\ Step(th, [threads[th] EXCEPT !.pc = "done", !.out = heap[threads[th].ref]])
    /\ UNCHANGED <<cache, now, heap>>
    /\ UNCHANGED fetchVars
    /\ UNCHANGED crewVars
    /\ UNCHANGED toolVars

\* Lines 225-236 and 244-247: the search and the extraction, which makes a new
\* dict; when the search raises, the mock record is returned at once
Search(th) ==
    /\ threads[th].pc = "search"
    /\ \E live \in RaceLiveOutcomes, rnd \in MockDraws :
        IF live.kind = "raise"
        THEN /\ Step(th, [threads[th] EXCEPT
                            !.pc = "done", !.path = "search_failed",
                            !.out = _get_mock_data(T12622, Today, "Search failed", now, rnd)])
             /\ heap' = heap
        ELSE /\ heap' = Append(heap, _extract_train_info(live, T12622, now, rnd))
             /\ Step(th, [threads[th] EXCEPT !.pc = "store", !.ref = Len(heap) + 1,
                                             !.path = "live"])
    /\ UNCHANGED <<cache, now>>
    /\ UNCHANGED fetchVars
    /\ UNCHANGED crewVars
    /\ UNCHANGED toolVars

\* Line 239: self.__class__.cache[cache_key] = (train_data, time.time())
StoreInCache(th) ==
    /\ threads[th].pc = "store"
    /\ cache' = CachePut(cache, RaceKey, threads[th].ref, now)
    /\ Step(th, [threads[th] EXCEPT !.pc = "annotate_fetched"])
    /\ UNCHANGED <<now, heap>>
    /\ UNCHANGED fetchVars
    /\ UNCHANGED crewVars
    /\ UNCHANGED toolVars

\* Line 240: train_data["source"] = "web_search", on the dict just stored
AnnotateFetched(th) ==
    /\ threads[th].pc = "annotate_fetched"
    /\ heap' = [heap EXCEPT ![threads[th].ref] = Set(@, "source", "web_search")]
    /\ Step(th, [threads[th] EXCEPT !.pc = "return_fetched"])
    /\ UNCHANGED <<cache, now>>
    /\ UNCHANGED fetchVars
    /\ UNCHANGED crewVars
    /\ UNCHANGED toolVars

\* Line 242: return json.dumps(train_data)
ReturnFetched(th) ==
    /\ threads[th].pc = "return_fetched"
    /\ Step(th, [threads[th] EXCEPT !.pc = "done", !.out = heap[threads[th].ref]])
    /\ UNCHANGED <<cache, now, heap>>
    /\ UNCHANGED fetchVars
    /\ UNCHANGED crewVars
    /\ UNCHANGED toolVars

NextRace ==
    \E th \in Threads :
        \/ CheckCache(th)
        \/ AnnotateCached(th)
        \/ ReturnCached(th)
        \/ Search(th)
        \/ StoreInCache(th)
        \/ AnnotateFetched(th)
        \/ ReturnFetched(th)

SpecRace == Init /\ [][NextRace]_vars

-----------------------------------------------------------------------------
(* Properties of the fetcher *)

FetchStep == nfetch' = nfetch + 1

LookupPaths == {"cache_hit", "live", "extract_mock", "search_failed"}

IsMock(rec) == "data_source" \in DOMAIN rec /\ rec.data_source = "mock_data"
               /\ "note" \in DOMAIN rec

C2_HitHasDataSourceCache ==
    last.path = "cache_hit" =>
        /\ last.age < cache_timeout
        /\ ~last.live_called
        /\ result.data_source = "cache"

\* C3: an entry is served exactly while its age, counted from the fetch that wrote
\* it, is below 300 s; serving it leaves its insertion time alone; a fetch that
\* finds it at age >= 300 s calls the live source; and nothing but a fetch
\* changes the cache.
C3_LazyExpiry ==
    [][/\ (FetchStep /\ last'.path \in LookupPaths) =>
            /\ last'.path = "cache_hit" <=> (last'.age >= 0 /\ last'.age < 300)
            /\ last'.path = "cache_hit" =>
                  /\ cache'[last'.key].timestamp = cache[last'.key].timestamp
                  /\ ~last'.live_called
            /\ last'.path # "cache_hit" => last'.live_called
            /\ last'.path \in {"live", "extract_mock"} =>
                  cache'[last'.key].timestamp = now
       /\ ~FetchStep => cache' = cache]_vars

C3_Witness ==
    /\ last.path = "live"
    /\ last.age = 300

C3_WitnessServedAt299 ==
    /\ last.path = "cache_hit"
    /\ last.age = 299

\* C4 as stated, for two fetches in a row: when a fetch for a key follows a fetch
\* for the same key by less than 300 s, the two return records that agree in
\* every field but "source".
C4_AnyTwoFetchesAgree ==
    [][(/\ FetchStep
        /\ last.path \in LookupPaths
        /\ last'.path \in LookupPaths
        /\ last'.key = last.key
        /\ now - last.at < 300)
       => Without(result', "source") = Without(result, "source")]_vars

\* C4 amended: a fetch served from the cache returns, annotated source = "cache",
\* a record that agrees in every field but "source" with the record returned by
\* the fetch that wrote the entry less than 300 s before.
C4_HitReturnsWrittenRecord ==
    last.path = "cache_hit" =>
        /\ last.key \in DOMAIN written
        /\ Without(result, "source") = Without(written[last.key], "source")
        /\ result.source = "cache"
        /\ written[last.key].source = "web_search"
        /\ last.at - written[last.key].last_updated < 300

C4_Witness ==
    /\ last.path = "cache_hit"
    /\ IsMock(result)
    /\ last.age = 299

\* C5 as stated: when the live lookup raised or returned nothing actionable, the
\* fetch returned a mock record with a note.
C5_NothingActionableGivesMock ==
    (last.live_called /\ (last.live.kind = "raise" \/ NothingActionable(last.live)))
        => IsMock(result)

\* C5 amended: the fetch returns a mock record with a note when the live lookup
\* raised or the extraction raised on its payload; when the lookup returned
\* nothing actionable without either raising, the fetch returns a web_search
\* record with current_station "Information not available", no arrival times
\* and no note.
C5_MockOnlyWhenSomethingRaised ==
    last.live_called =>
        /\ (last.live.kind = "raise" \/ ExtractRaises(last.live)) => IsMock(result)
        /\ (/\ NothingActionable(last.live)
            /\ last.live.kind # "raise"
            /\ ~ExtractRaises(last.live))
           => /\ result.data_source = "web_search"
              /\ result.current_station = "Information not available"
              /\ result.scheduled_arrival = NoTime
              /\ result.actual_arrival = NoTime
              /\ "note" \notin DOMAIN result

C5_Witness ==
    /\ last.live_called
    /\ last.live.kind = "text"
    /\ result.data_source = "web_search"

C5_WitnessMock ==
    /\ last.live_called
    /\ last.live.kind = "raise"
    /\ IsMock(result)

\* The input is a validation result with valid = true and a 5-digit train number
ValidInput(input_data) ==
    /\ input_data.form = "json_object"
    /\ "valid" \in DOMAIN input_data.obj
    /\ input_data.obj.valid
    /\ "train_number" \in DOMAIN input_data.obj
    /\ IsFiveDigits(input_data.obj.train_number)

\* C6: for a validation result with valid = true and a 5-digit train number the
\* fetcher returns a status record for that train, neither an error record nor
\* an exception, whatever the live source did.
C6_ValidInputGetsRecord ==
    (last.path # "none" /\ ValidInput(last.input)) =>
        /\ "exception" \notin DOMAIN result
        /\ "error" \notin DOMAIN result
        /\ last.path \in LookupPaths
        /\ result.train_number = last.input.obj.train_number
        /\ result.data_source \in {"web_search", "mock_data"}

C6_Witness ==
    /\ ValidInput(last.input)
    /\ last.live.kind = "raise"
    /\ IsMock(result)

\* C7: for a validation result with valid = false the fetcher returns the error
\* record with the validator's message, calls neither the cache nor the live
\* source, and leaves the cache as it was.
C7_InvalidInputShortCircuits ==
    [][(/\ FetchStep
        /\ last'.input.form = "json_object"
        /\ "valid" \in DOMAIN last'.input.obj
        /\ ~last'.input.obj.valid)
       => /\ result' = [error |-> last'.input.obj.error]
          /\ last'.path = "validation_error"
          /\ ~last'.live_called
          /\ cache' = cache]_vars

C7_Witness ==
    /\ last.path = "validation_error"
    /\ result = [error |-> "Date cannot be in the past"]
    /\ cache # EmptyDict
-----------------------------------------------------------------------------
(* Properties of the crew *)

PipelineStages == {"validator", "fetcher", "normalizer", "geo", "formatter"}

\* A stage's output is a failure: an error record, a rejected validation or an
\* unsuccessful response
YieldsFailure(out) ==
    \/ "error" \in DOMAIN out
    \/ "valid" \in DOMAIN out /\ ~out.valid
    \/ "success" \in DOMAIN out /\ ~out.success

\* C8 as stated: whenever a pipeline stage has yielded a failure for a query, the
\* stage that runs next for that query, if any has run, is the ErrorAdvisor: no
\* later pipeline stage runs on the query's data.
C8_FailureRoutesToAdvisor ==
    \A i \in 1..Len(log) :
        (log[i].stage \in PipelineStages /\ YieldsFailure(log[i].out) /\ i < Len(log))
            => log[i + 1].stage = "error_advisor"

\* C9 as stated: each of the fetcher, the normalizer, the geo calculator and the
\* formatter, when its input is an error record carrying the error e, outputs a
\* record that carries the same error e.
C9_ErrorForwardedAtEveryStage ==
    \A i \in 1..Len(log) :
        (log[i].stage \in {"fetcher", "normalizer", "geo", "formatter"}
         /\ "error" \in DOMAIN log[i].input)
            => /\ "error" \in DOMAIN log[i].out
               /\ log[i].out.error = log[i].input.error

HasMessage(r) == "message" \in DOMAIN r \/ "error_message" \in DOMAIN r

HasSuggestions(r) ==
    \/ "suggestions" \in DOMAIN r
    \/ /\ "error_details" \in DOMAIN r
       /\ "of" \in DOMAIN r.error_details
       /\ "suggestions" \in DOMAIN r.error_details.of

\* C10 as stated: every call of get_train_status returns, without raising, a
\* structured result that carries either a formatted status message or an error
\* message together with suggestions.
C10_MessageOrErrorWithSuggestions ==
    pc = "done" =>
        /\ "exception" \notin DOMAIN ret
        /\ "success" \in DOMAIN ret
        /\ \/ ret.success /\ "message" \in DOMAIN ret
           \/ ~ret.success /\ HasMessage(ret) /\ HasSuggestions(ret)

\* C10 amended: every call of get_train_status returns, without raising, a
\* record with a boolean success flag; a successful one carries data and a
\* message; an unsuccessful one carries an error tag and a message or an
\* error_message, and it carries suggestions only when the pipeline runner
\* raised: within error_details, the text of the advisor's output
\* (execution_error, unless that text could not be extracted), or as the
\* fallback's own list (system_error). Rejected inputs and result-processing
\* failures carry no suggestions.
C10_ReturnsStructuredResult ==
    pc = "done" =>
        /\ "exception" \notin DOMAIN ret
        /\ "success" \in DOMAIN ret
        /\ ret.success \in BOOLEAN
        /\ ret.success => "message" \in DOMAIN ret /\ "data" \in DOMAIN ret
        /\ ~ret.success =>
            /\ "error" \in DOMAIN ret
            /\ ret.error \in {"validation_error", "execution_error", "system_error",
                              "processing_error", "result_processing_error",
                              "unexpected_error"}
            /\ HasMessage(ret)
            /\ HasSuggestions(ret) => ret.error \in {"execution_error", "system_error"}
            /\ ret.error = "system_error" => "suggestions" \in DOMAIN ret
            /\ ret.error = "execution_error" => "error_details" \in DOMAIN ret

C10_Witness ==
    /\ pc = "done"
    /\ args.train_number = T123
    /\ ~ret.success
    /\ ret.error = "validation_error"
    /\ ret.message = Text("Train number must be exactly 5 digits")
    /\ ~HasSuggestions(ret)

-----------------------------------------------------------------------------
(* The tools on their own: one call of a tool on one of its inputs, and the   *)
(* formatter called on what the normalizer returned                          *)

FullWidthOne == "fullwidth 1"

ValidatorTrainNumbers ==
    { T12622, T00000, T123, << >>,
      <<"1", "2", "6", "2", "2", "0">>,
      <<"1", "2", "a", "4", "5">>,
      <<"1", "2", " ", "2", "2">>,
      <<"1", "2", "6", "2", FullWidthOne>>,
      <<" ", "1", "2", "6", "2", "2", "\n">>,
      <<"\t", "1", "2", "3", " ">>,
      <<" ", " ">> }

ValidatorDates == DateStrings \cup {PyNone}

\* TrainValidationTool._run(train_number, date)
Validate ==
    /\ tool = "none"
    /\ \E train_number \in ValidatorTrainNumbers, date \in ValidatorDates :
        /\ tin' = [train_number |-> train_number, date |-> date]
        /\ tout' = TrainValidationTool_run(train_number, date, TodayDay)
    /\ tool' = "validator"
    /\ UNCHANGED <<cache, now>>
    /\ UNCHANGED fetchVars
    /\ UNCHANGED crewVars
    /\ UNCHANGED raceVars

\* Tool arguments that are no JSON object: a JSON value that is no dict, and a
\* string that is not JSON
NotObjects ==
    { [form |-> "json_scalar", obj |-> EmptyDict, digits |-> << >>],
      [form |-> "bare_text", obj |-> EmptyDict, digits |-> << >>] }

\* Records with the key "error": bare, with the validator's fields, with
\* status fields
ErrorRecords ==
    UNION { { [error |-> e],
              ValidationError(e),
              [error |-> e, train_number |-> T12622, current_station |-> "New Delhi",
               scheduled_arrival |-> 7200, actual_arrival |-> 8100] }
            : e \in ErrorMessages \cup {"x"} }

ScheduledAt == 7200

\* actual_arrival - scheduled_arrival, in seconds
DelaySeconds == {-120, -59, 0, 59, 60, 900, 959, 960, 3600, 3659, 3660, 7200, 7500}

\* (scheduled_arrival, actual_arrival) of a raw record
Arrivals ==
    { <<NoTime, NoTime>>, <<ScheduledAt, NoTime>>, <<NoTime, ScheduledAt>>,
      <<BadTime, NoTime>>,
      <<BadTime, ScheduledAt>>, <<ScheduledAt, BadTime>>,
      <<AwareBase + ScheduledAt, ScheduledAt + 1200>>,
      <<AwareBase + ScheduledAt, AwareBase + ScheduledAt + 960>> }
    \cup { <<ScheduledAt, ScheduledAt + d>> : d \in DelaySeconds }

Absent == "<absent>"

\* The dict without the keys whose value is Absent
Present(d) == [k \in {j \in DOMAIN d : d[j] # Absent} |-> d[k]]

RawRecords ==
    { [train_number |-> T12622,
       scheduled_arrival |-> ar[1],
       actual_arrival |-> ar[2]]
      @@ Present([data_source |-> src, current_station |-> st])
      : ar \in Arrivals,
        src \in {"mock_data", "web_search", Absent},
        st \in {"Information not available", "New Delhi", Absent} }
    \cup { _get_mock_data(T12622, Today, ec, 0, rnd)
           : ec \in {"", "Search failed"}, rnd \in MockDraws }

NormalizerInputs ==
    NotObjects \cup { JsonObject(r) : r \in ErrorRecords \cup RawRecords }

\* DataProcessingTool._run(input_data)
Normalize ==
    /\ tool = "none"
    /\ \E input_data \in NormalizerInputs :
        /\ tin' = input_data
        /\ tout' = DataProcessingTool_run(input_data, now)
    /\ tool' = "normalizer"
    /\ UNCHANGED <<cache, now>>
    /\ UNCHANGED fetchVars
    /\ UNCHANGED crewVars
    /\ UNCHANGED raceVars

\* With(key, values): the ways a dict holds the key with one of the values, or
\* does not hold it
With(key, values) == {EmptyDict} \cup { [k \in {key} |-> v] : v \in values }

\* Processed records as the formatter reads them
ProcessedRecords ==
    { [train_info |-> [number |-> T12622, name |-> <<"Express Train", T12622>>],
       status |-> [category |-> "Delayed", emoji |-> "orange circle", delay_minutes |-> 16,
                   delay_text |-> _format_delay_text(16)],
       current_location |-> [station |-> "New Delhi", lat |-> 28, lon |-> 77]]
      @@ ns @@ nt @@ sc @@ src @@ lu
      : ns \in With("next_stations",
                    {<< >>, <<"Agra">>, <<"Agra", "Bhopal", "Nagpur", "Chennai">>}),
        nt \in With("note", {<<"", "">>, <<"Using mock data - ", "Search failed">>}),
        sc \in With("reliability_score", {0, 599, 600, 799, 800, 1000}),
        src \in With("data_source", {"mock_data", "cache", "web_search", "unknown"}),
        lu \in With("timing", { [last_updated |-> t] : t \in {NoTime, BadTime, 0, AwareBase + 60} }
                              \cup {EmptyDict}) }

FormatterInputs ==
    NotObjects \cup { JsonObject(r) : r \in ErrorRecords \cup ProcessedRecords }

\* ResponseGeneratorTool._run(input_data), on an input of its own or on what the
\* normalizer has just returned
Format ==
    /\ tool \in {"none", "normalizer"}
    /\ \E input_data \in (IF tool = "none" THEN FormatterInputs ELSE {JsonObject(tout)}) :
        /\ tin' = input_data
        /\ tout' = ResponseGeneratorTool_run(input_data)
    /\ tool' = "formatter"
    /\ UNCHANGED <<cache, now>>
    /\ UNCHANGED fetchVars
    /\ UNCHANGED crewVars
    /\ UNCHANGED raceVars

GeoCurrents ==
    {<<0, 0>>, <<28, 77>>, <<90, 180>>, <<-90, -180>>,
     <<91, 0>>, <<-91, 0>>, <<0, 181>>, <<0, -181>>}

\* The current position in the argument: flat, nested or missing
GeoCurrentParts ==
    {EmptyDict}
    \cup { [current_lat |-> c[1], current_lon |-> c[2]] : c \in GeoCurrents }
    \cup { [current_location |-> [lat |-> c[1], lon |-> c[2]]] : c \in GeoCurrents }

\* The target in the argument: none, one coordinate only, or both
GeoTargetParts ==
    {EmptyDict, [target_lat |-> 28], [target_lon |-> 77], [target_lat |-> 200]}
    \cup { [target_lat |-> c[1], target_lon |-> c[2]] : c \in GeoCurrents }

GeoInputs ==
    NotObjects \cup { JsonObject(c @@ g) : c \in GeoCurrentParts, g \in GeoTargetParts }

\* GeospatialTool._run(input_data)
Locate ==
    /\ tool = "none"
    /\ \E input_data \in GeoInputs :
        /\ tin' = input_data
        /\ tout' = GeospatialTool_run(input_data)
    /\ tool' = "geo"
    /\ UNCHANGED <<cache, now>>
    /\ UNCHANGED fetchVars
    /\ UNCHANGED crewVars
    /\ UNCHANGED raceVars

AdvisorErrorTypes ==
    {"validation", "api", "network", "processing", "execution",
     "unknown", "execution_error", "parsing", "Validation", ""}

AdvisorInputs ==
    NotObjects
    \cup { JsonObject([error_type |-> et, error_message |-> "failed"])
           : et \in AdvisorErrorTypes }
    \cup { JsonObject([error_type |-> et]) : et \in AdvisorErrorTypes }
    \cup { JsonObject(EmptyDict), JsonObject([error_message |-> "failed"]),
           JsonObject([error |-> "x"]) }

\* ErrorHandlingTool._run(input_data)
Advise ==
    /\ tool = "none"
    /\ \E input_data \in AdvisorInputs :
        /\ tin' = input_data
        /\ tout' = ErrorHandlingTool_run(input_data, now)
    /\ tool' = "advisor"
    /\ UNCHANGED <<cache, now>>
    /\ UNCHANGED fetchVars
    /\ UNCHANGED crewVars
    /\ UNCHANGED raceVars

\* Results whose snippet has a status keyword and: a second station; a delay in
\* minutes next to a word with "hr" in it ("through"); a station and a delay
R_station2 == Res(FALSE, [NoSnippet EXCEPT !.keyword = TRUE, !.station = "Bhopal",
                                           !.station_cap = TRUE])
R_min_through == Res(FALSE, [NoSnippet EXCEPT !.keyword = TRUE, !.delay_n = 10,
                                              !.delay_unit = "min", !.other_hr = TRUE])
R_both == Res(TRUE, [NoSnippet EXCEPT !.keyword = TRUE, !.station = "Agra",
                                      !.station_cap = TRUE, !.delay_n = 3,
                                      !.delay_unit = "hr"])
R_plain == Res(FALSE, [NoSnippet EXCEPT !.keyword = TRUE])

SearchResultKinds ==
    {R_station, R_station2, R_min, R_hr, R_min_through, R_both, R_nokey, R_plain,
     R_nondict}

\* Lists of search results: every list of at most two, and lists of six whose
\* sixth result is the only one with a station or a delay
OrganicLists ==
    {<< >>}
    \cup { <<a>> : a \in SearchResultKinds }
    \cup { <<a, b>> : a \in SearchResultKinds, b \in SearchResultKinds }
    \cup { <<R_plain, R_plain, R_plain, R_plain, a, b>>
           : a \in {R_plain, R_station, R_min}, b \in {R_station2, R_hr, R_both} }

\* _extract_train_info(search_results, train_number) on a dict of results
Extract ==
    /\ tool = "none"
    /\ \E organic \in OrganicLists, rnd \in MockDraws :
        /\ tin' = [kind |-> "results", organic |-> organic]
        /\ tout' = _extract_train_info([kind |-> "results", organic |-> organic],
                                       T12622, now, rnd)
    /\ tool' = "extractor"
    /\ UNCHANGED <<cache, now>>
    /\ UNCHANGED fetchVars
    /\ UNCHANGED crewVars
    /\ UNCHANGED raceVars

\* Bearings in hundredths of a degree: every multiple of 11.25 degrees (the
\* compass points and the borders between them) and its two neighbours
BearingSamples ==
    { b \in 0..35999 : \E k \in 0..32 : b - k * 1125 \in {-1, 0, 1} }

\* GeospatialTool._bearing_to_direction(bearing)
Direct ==
    /\ tool = "none"
    /\ \E bearing100 \in BearingSamples :
        /\ tin' = [bearing100 |-> bearing100]
        /\ tout' = [direction |-> _bearing_to_direction(bearing100)]
    /\ tool' = "compass"
    /\ UNCHANGED <<cache, now>>
    /\ UNCHANGED fetchVars
    /\ UNCHANGED crewVars
    /\ UNCHANGED raceVars

\* GeospatialTool._haversine_distance for two points, taken both ways, and for
\* the first point with itself
Measure ==
    /\ tool = "none"
    /\ \E a \in GeoPoints, b \in GeoPoints :
        /\ tin' = [a |-> a, b |-> b]
        /\ tout' = [there |-> _haversine_distance(a[1], a[2], b[1], b[2]),
                    back |-> _haversine_distance(b[1], b[2], a[1], a[2]),
                    same |-> _haversine_distance(a[1], a[2], a[1], a[2])]
    /\ tool' = "distance"
    /\ UNCHANGED <<cache, now>>
    /\ UNCHANGED fetchVars
    /\ UNCHANGED crewVars
    /\ UNCHANGED raceVars

\* Latitudes and longitudes on, inside and outside the borders of the boxes of
\* _get_region_info
RegionLats == {-1, 0, 5, 6, 7, 8, 13, 14, 18, 19, 22, 24, 25, 26, 27, 28, 31, 32, 37, 38}
RegionLons == {-1, 0, 67, 68, 71, 72, 75, 76, 78, 79, 80, 81, 87, 88, 92, 93, 97, 98}

\* GeospatialTool._get_region_info(lat, lon)
Tag ==
    /\ tool = "none"
    /\ \E lat \in RegionLats, lon \in RegionLons :
        /\ tin' = [lat |-> lat, lon |-> lon]
        /\ tout' = _get_region_info(lat, lon)
    /\ tool' = "region"
    /\ UNCHANGED <<cache, now>>
    /\ UNCHANGED fetchVars
    /\ UNCHANGED crewVars
    /\ UNCHANGED raceVars

NextTools ==
    \/ Validate
    \/ Normalize
    \/ Format
    \/ Locate
    \/ Advise
    \/ Extract
    \/ Direct
    \/ Measure
    \/ Tag

SpecTools == Init /\ [][NextTools]_vars

-----------------------------------------------------------------------------
(* Properties of the tools *)

\* The string without its surrounding whitespace
Core(s) ==
    LET inner == {i \in 1..Len(s) : s[i] \notin Whitespace}
    IN  IF inner = {} THEN << >>
        ELSE SubSeq(s, CHOOSE i \in inner : \A j \in inner : i <= j,
                       CHOOSE i \in inner : \A j \in inner : i >= j)

FiveAsciiDigits(s) == Len(s) = 5 /\ \A i \in 1..5 : s[i] \in Digits

TrainNumberMessage == "Train number must be exactly 5 digits"

\* C11: the validator decides on the train number without its surrounding
\* whitespace. When that is not exactly 5 ASCII digits, the result is valid=false
\* with the message about the train number; when it is, the result is never that
\* rejection and, with no date given, it is valid=true; an accepted result echoes
\* the stripped train number; a rejected result carries train_number=null and
\* date=null.
C11_TrainNumberValidation ==
    tool = "validator" =>
        /\ ~FiveAsciiDigits(Core(tin.train_number)) =>
              /\ ~tout.valid
              /\ tout.error = TrainNumberMessage
        /\ FiveAsciiDigits(Core(tin.train_number)) =>
              /\ tout.valid \/ tout.error # TrainNumberMessage
              /\ tin.date = PyNone => tout.valid
        /\ tout.valid => tout.train_number = Core(tin.train_number)
        /\ ~tout.valid => tout.train_number = PyNoneSeq /\ tout.date = PyNone

C11_Witness ==
    /\ tool = "validator"
    /\ tin.train_number = <<" ", "1", "2", "6", "2", "2", "\n">>
    /\ tout.valid
    /\ tout.train_number = T12622

C11_WitnessRejected ==
    /\ tool = "validator"
    /\ tin.train_number = <<"1", "2", "6", "2", FullWidthOne>>
    /\ ~tout.valid
    /\ tout.train_number = PyNoneSeq

\* The day of a date string that strptime parses, after str.strip()
DayOf(date) == DateTable(StripDate(date)).day

InWindow(date) ==
    /\ DateTable(StripDate(date)).parses
    /\ TodayDay <= DayOf(date)
    /\ DayOf(date) <= TodayDay + 120

\* C12: for a valid train number, a date that is given is accepted if and only
\* if it parses as YYYY-MM-DD and lies in [today, today + 120 days], both ends
\* included; with no date the accepted result carries today's date; every
\* accepted result carries a date inside the window.
C12_DateWindow ==
    (tool = "validator" /\ FiveAsciiDigits(Core(tin.train_number))) =>
        /\ tin.date \notin {PyNone, ""} => (tout.valid <=> InWindow(tin.date))
        /\ tin.date \in {PyNone, ""} => tout.valid /\ tout.date = Today
        /\ tout.valid => tout.date # PyNone /\ InWindow(tout.date)

C12_Witness ==
    /\ tool = "validator"
    /\ tin.train_number = T12622
    /\ tin.date = "2027-03-03"
    /\ tout.valid
    /\ tout.date = "2027-03-03"

C12_WitnessRejected ==
    /\ tool = "validator"
    /\ tin.train_number = T12622
    /\ tin.date = "2027-03-04"
    /\ ~tout.valid

IsErrorInput == tin.form = "json_object" /\ "error" \in DOMAIN tin.obj

\* C13: the normalizer given a record with the key "error" returns exactly
\* {error: x, processed: false}; the formatter given that output (a record with
\* "error" and "processed") returns exactly success=false, the same error x and
\* a message whose line holds x; no status field is added by either.
C13_ErrorFlowsThrough ==
    /\ (tool = "normalizer" /\ IsErrorInput) =>
            tout = [error |-> tin.obj.error, processed |-> FALSE]
    /\ (tool = "formatter" /\ IsErrorInput) =>
            /\ DOMAIN tout = {"success", "message", "error"}
            /\ tout.success = FALSE
            /\ tout.error = tin.obj.error
            /\ \E i \in 1..Len(tout.message) :
                  /\ tout.message[i].kind = "error"
                  /\ tout.message[i].error = tin.obj.error

C13_Witness ==
    /\ tool = "formatter"
    /\ tin.obj = [error |-> "x", processed |-> FALSE]
    /\ tout.success = FALSE
    /\ tout.error = "x"

BothParse ==
    /\ tool = "normalizer" /\ tin.form = "json_object" /\ "error" \notin DOMAIN tin.obj
    /\ Get(tin.obj, "scheduled_arrival", NoTime) \notin {NoTime, BadTime}
    /\ Get(tin.obj, "actual_arrival", NoTime) \notin {NoTime, BadTime}

CategoryOfClaim(delay_minutes) ==
    IF delay_minutes <= 0 THEN "On Time"
    ELSE IF delay_minutes \in 1..15 THEN "Slightly Delayed"
    ELSE IF delay_minutes \in 16..60 THEN "Delayed"
    ELSE "Significantly Delayed"

\* C14 as stated: whenever both timestamps of the raw record parse, the status
\* category is the one of the thresholds for the record's delay_minutes.
C14_ThresholdsWheneverBothParse ==
    BothParse => tout.status.category = CategoryOfClaim(tout.status.delay_minutes)

Subtractable ==
    IsAware(tin.obj.scheduled_arrival) = IsAware(tin.obj.actual_arrival)

\* C14 amended: when both timestamps parse and their difference can be taken
\* (both carry a UTC offset or neither does), delay_minutes is that difference in
\* whole minutes and the category is: <= 0 On Time (so also for a negative
\* delay), 1..15 Slightly Delayed, 16..60 Delayed, > 60 Significantly Delayed.
\* When both parse and only one carries a UTC offset, the category is
\* "Status Unknown" with delay_minutes = 0.
C14_ThresholdsWhenSubtractable ==
    BothParse =>
        /\ Subtractable =>
            /\ tout.status.category = CategoryOfClaim(tout.status.delay_minutes)
            /\ LET seconds == Seconds(tin.obj.actual_arrival) - Seconds(tin.obj.scheduled_arrival)
               IN  /\ seconds = 0 => tout.status.category = "On Time"
                   /\ seconds < 0 => tout.status.category = "On Time"
                   /\ seconds = 15 * 60 => tout.status.category = "Slightly Delayed"
                   /\ seconds = 16 * 60 => tout.status.category = "Delayed"
                   /\ seconds = 60 * 60 => tout.status.category = "Delayed"
                   /\ seconds = 61 * 60 => tout.status.category = "Significantly Delayed"
        /\ ~Subtractable =>
            /\ tout.status.category = "Status Unknown"
            /\ tout.status.delay_minutes = 0

C14_Witness ==
    /\ BothParse
    /\ tin.obj.actual_arrival - tin.obj.scheduled_arrival = 16 * 60
    /\ tout.status.delay_minutes = 16
    /\ tout.status.category = "Delayed"

C14_WitnessMixed ==
    /\ BothParse
    /\ ~Subtractable
    /\ tout.status.category = "Status Unknown"

NormalizedRecord ==
    tool = "normalizer" /\ tin.form = "json_object" /\ "error" \notin DOMAIN tin.obj

\* The score of the claim, in tenths
ScoreOfClaim(delay_minutes, data_source, current_station) ==
    LET for_delay == IF delay_minutes > 0
                     THEN (IF 5 * delay_minutes < 300 THEN 5 * delay_minutes ELSE 300)
                     ELSE 0
        for_mock == IF data_source = "mock_data" THEN 200 ELSE 0
        for_station == IF current_station = "Information not available" THEN 150 ELSE 0
        score == 1000 - for_delay - for_mock - for_station
    IN  IF score < 0 THEN 0 ELSE IF score > 1000 THEN 1000 ELSE score

DelaysCompared == (-2..3) \cup (58..62) \cup {120}

\* C15: the reliability score of a normalized record is 100 minus
\* min(0.5 x delay_minutes, 30) when delay_minutes > 0, minus 20 for mock data,
\* minus 15 for the station "Information not available", clamped to [0, 100]; it
\* is never below 0, at most 80 for a mock record, and for the record's other
\* fields it does not increase when delay_minutes grows.
C15_ReliabilityScore ==
    NormalizedRecord =>
        /\ tout.reliability_score =
              ScoreOfClaim(tout.status.delay_minutes,
                           Get(tin.obj, "data_source", Absent),
                           Get(tin.obj, "current_station", Absent))
        /\ tout.reliability_score >= 0
        /\ tout.reliability_score <= 1000
        /\ Get(tin.obj, "data_source", Absent) = "mock_data" => tout.reliability_score <= 800
        /\ \A d1, d2 \in DelaysCompared :
              d1 <= d2 => _calculate_reliability_score(tin.obj, d1)
                            >= _calculate_reliability_score(tin.obj, d2)

C15_Witness ==
    /\ NormalizedRecord
    /\ Get(tin.obj, "data_source", Absent) = "mock_data"
    /\ Get(tin.obj, "current_station", Absent) = "Information not available"
    /\ tout.status.delay_minutes = 120
    /\ tout.reliability_score = 350

GeoCall == tool = "geo" /\ tin.form = "json_object"

\* The current coordinates the call is about
CurrentOfCall ==
    IF "current_location" \in DOMAIN tin.obj
    THEN <<Get(tin.obj.current_location, "lat", 0), Get(tin.obj.current_location, "lon", 0)>>
    ELSE <<Get(tin.obj, "current_lat", 0), Get(tin.obj, "current_lon", 0)>>

TargetSupplied == {"target_lat", "target_lon"} \subseteq DOMAIN tin.obj

OutOfRange(lat, lon) == lat < -90 \/ lat > 90 \/ lon < -180 \/ lon > 180

InvalidCoordinatesError ==
    /\ "error" \in DOMAIN tout
    /\ tout.error \in {"Invalid current coordinates", "Invalid target coordinates"}

TargetFields == {"distance_km", "bearing_degrees", "direction"}

\* C16: the geo calculator returns an invalid-coordinates error if and only if
\* the current coordinates are out of range, or target coordinates are supplied
\* and out of range; in every other result distance_km, bearing_degrees and
\* direction are all present when (valid) target coordinates were supplied and
\* all absent otherwise, and current_coordinates and region_info are present.
C16_GeoResultShape ==
    GeoCall =>
        /\ InvalidCoordinatesError <=>
              \/ OutOfRange(CurrentOfCall[1], CurrentOfCall[2])
              \/ TargetSupplied /\ OutOfRange(tin.obj.target_lat, tin.obj.target_lon)
        /\ "error" \notin DOMAIN tout =>
              /\ TargetSupplied => TargetFields \subseteq DOMAIN tout
              /\ ~TargetSupplied => TargetFields \cap DOMAIN tout = {}
              /\ {"current_coordinates", "region_info"} \subseteq DOMAIN tout

C16_Witness ==
    /\ GeoCall
    /\ CurrentOfCall = <<28, 77>>
    /\ TargetSupplied
    /\ tin.obj.target_lat = 90 /\ tin.obj.target_lon = 180
    /\ "error" \notin DOMAIN tout
    /\ tout.distance_km = 689409

C16_WitnessInvalidTarget ==
    /\ GeoCall
    /\ CurrentOfCall = <<28, 77>>
    /\ TargetSupplied
    /\ tin.obj.target_lon = 181
    /\ tout = [error |-> "Invalid target coordinates"]

GenericSuggestions ==
    <<"An unexpected error occurred",
      "Try the request again",
      "Check your input parameters",
      "Contact support if the problem persists">>

\* The error_type the advisor is asked about: the one of the dict, "unknown" when
\* the dict has none, "parsing" when the input is text that is not JSON
TypeAsked ==
    IF tin.form = "json_object" THEN Get(tin.obj, "error_type", "unknown") ELSE "parsing"

\* C17: asked about validation, api, network, processing or execution the
\* advisor recommends a retry and gives the list of that type, the same list for
\* api and network; asked about any other type, no type, or with text that is
\* not JSON, it gives the generic list and recommends no retry; for every input
\* (also JSON text of a value that is no dict, which gets the fixed critical
\* payload) the result carries message, suggestions and retry_recommended.
C17_AdvisorLookup ==
    tool = "advisor" =>
        /\ {"message", "suggestions", "retry_recommended"} \subseteq DOMAIN tout
        /\ tout.retry_recommended \in BOOLEAN
        /\ tin.form # "json_scalar" =>
            /\ tout.error_type = TypeAsked
            /\ TypeAsked \in {"validation", "api", "network", "processing", "execution"} =>
                  /\ tout.retry_recommended
                  /\ tout.suggestions = Suggestions(TypeAsked)
                  /\ tout.suggestions # GenericSuggestions
            /\ TypeAsked \notin {"validation", "api", "network", "processing", "execution"} =>
                  /\ ~tout.retry_recommended
                  /\ tout.suggestions = GenericSuggestions
        /\ tin.form = "json_scalar" =>
            /\ ~tout.retry_recommended
            /\ tout.error_type = "error_handler_failure"
        /\ Suggestions("api") = Suggestions("network")
        /\ \A a, b \in {"validation", "api", "processing", "execution"} :
              a # b => Suggestions(a) # Suggestions(b)

C17_Witness ==
    /\ tool = "advisor"
    /\ tin.form = "json_object"
    /\ Get(tin.obj, "error_type", "unknown") = "network"
    /\ tout.retry_recommended
    /\ tout.suggestions[1] = "Check your internet connection"

C17_WitnessGeneric ==
    /\ tool = "advisor"
    /\ tin.form = "json_object"
    /\ Get(tin.obj, "error_type", "unknown") = "execution_error"
    /\ ~tout.retry_recommended
    /\ tout.suggestions = GenericSuggestions

FormattedRecord ==
    tool = "formatter" /\ tin.form = "json_object" /\ "error" \notin DOMAIN tin.obj

\* The place of a line of each kind in the message; the timing line (the delay
\* text) follows the status line
LineOrder ==
    <<"title", "status", "timing", "location", "upcoming", "reliability", "source",
      "last_updated", "note">>

Rank(kind) == CHOOSE i \in 1..Len(LineOrder) : LineOrder[i] = kind

HasLine(kind) == \E i \in 1..Len(tout.message) : tout.message[i].kind = kind

LineOf(kind) == tout.message[CHOOSE i \in 1..Len(tout.message) : tout.message[i].kind = kind]

LastUpdatedOfInput == Get(Get(tin.obj, "timing", EmptyDict), "last_updated", NoTime)

ScoreOfInput == Get(tin.obj, "reliability_score", 0)

\* C18: the message of a success record has its lines in the order title,
\* status, current location, upcoming stations, reliability, data-source
\* annotation, last updated, note, each at most once; title, status, location
\* and reliability are always there; the upcoming-stations line is there iff
\* next_stations is non-empty, the last-updated line iff the record's timestamp
\* is there and parses, the note line iff the record carries a non-empty note;
\* the indicator is good from 80, fair from 60 to below 80, poor below 60.
C18_MessageStructure ==
    FormattedRecord =>
        /\ tout.success
        /\ \A i, j \in 1..Len(tout.message) :
              i < j => Rank(tout.message[i].kind) < Rank(tout.message[j].kind)
        /\ \A kind \in {"title", "status", "location", "reliability"} : HasLine(kind)
        /\ LineOf("title").number = T12622
        /\ HasLine("upcoming") <=> Get(tin.obj, "next_stations", << >>) # << >>
        /\ HasLine("last_updated") <=> LastUpdatedOfInput \notin {NoTime, BadTime}
        /\ HasLine("note") <=> Get(tin.obj, "note", <<"", "">>) # <<"", "">>
        /\ ScoreOfInput >= 800 => LineOf("reliability").indicator = "green"
        /\ (ScoreOfInput >= 600 /\ ScoreOfInput < 800) =>
              LineOf("reliability").indicator = "yellow"
        /\ ScoreOfInput < 600 => LineOf("reliability").indicator = "red"

C18_Witness ==
    /\ FormattedRecord
    /\ Len(tout.message) = 9
    /\ tout.message[5].kind = "upcoming"
    /\ tout.message[5].stations = <<"Agra", "Bhopal", "Nagpur">>
    /\ tout.message[6].indicator = "yellow"
    /\ tout.message[6].score = 600
    /\ tout.message[9].kind = "note"

C18_WitnessShortest ==
    /\ FormattedRecord
    /\ Len(tout.message) = 5
    /\ LastUpdatedOfInput = BadTime
    /\ ~HasLine("last_updated")

\* The results consulted: the first five
Consulted == 1..(IF Len(tin.organic) < 5 THEN Len(tin.organic) ELSE 5)

\* The consulted results whose snippet, as the live source returned it, has a
\* status keyword and a station phrase with a capitalized name
WithStation ==
    { i \in Consulted :
        /\ tin.organic[i].is_dict
        /\ tin.organic[i].snippet.keyword
        /\ tin.organic[i].snippet.station # ""
        /\ tin.organic[i].snippet.station_cap }

\* The consulted results whose snippet has a status keyword and a delay phrase
WithDelay ==
    { i \in Consulted :
        /\ tin.organic[i].is_dict
        /\ tin.organic[i].snippet.keyword
        /\ tin.organic[i].snippet.delay_n >= 0 }

LastOf(S) == CHOOSE i \in S : \A j \in S : j <= i

\* C19 as stated: when a result among the first five has a snippet with a status
\* keyword and a phrase "(at|from|departed|arrived) <Capitalized words>", the
\* record's current_station is that station name, the one of the last such
\* result; results after the fifth are not consulted.
C19_StationOfLastMatchingSnippet ==
    tool = "extractor" =>
        IF WithStation # {}
        THEN tout.current_station = tin.organic[LastOf(WithStation)].snippet.station
        ELSE tout.current_station = "Information not available"

\* What the extraction does about the station: no snippet ever sets it
C19_StationNeverExtracted ==
    tool = "extractor" => tout.current_station = "Information not available"

\* C20 as stated: for a keyword-positive snippet with a delay phrase of N units,
\* actual_arrival is scheduled_arrival plus N minutes when the phrase's unit is
\* minutes and plus N x 60 minutes when it is hours, whatever else the snippet
\* contains (the last such snippet among the first five decides).
C20_HoursOnlyFromDelayPhrase ==
    (tool = "extractor" /\ WithDelay # {}) =>
        LET snippet == tin.organic[LastOf(WithDelay)].snippet
            minutes == IF snippet.delay_unit = "hr" THEN snippet.delay_n * 60
                       ELSE snippet.delay_n
        IN  tout.actual_arrival = tout.scheduled_arrival + minutes * 60

\* What the extraction does about the unit: a delay in minutes is multiplied by
\* 60 as well when "hr" or "hour" occurs anywhere in the snippet
C20_HoursFromAnywhere ==
    (tool = "extractor" /\ WithDelay # {}) =>
        LET snippet == tin.organic[LastOf(WithDelay)].snippet
            minutes == IF snippet.delay_unit = "hr" \/ snippet.other_hr
                       THEN snippet.delay_n * 60 ELSE snippet.delay_n
        IN  tout.actual_arrival = tout.scheduled_arrival + minutes * 60

(***************************************************************************)
(* The delay of a normalized record                                        *)
(***************************************************************************)

\* actual_arrival - scheduled_arrival of the call's raw record, in seconds
DifferenceSeconds == Seconds(tin.obj.actual_arrival) - Seconds(tin.obj.scheduled_arrival)

\* round(seconds / 60): the nearest integer, a tie going to the even one
RoundedMinutes(seconds) ==
    LET q == seconds \div 60
        r == seconds % 60
    IN  IF r < 30 THEN q
        ELSE IF r > 30 THEN q + 1
        ELSE IF q % 2 = 0 THEN q ELSE q + 1

\* C21 as stated: when both timestamps parse (and their difference can be
\* taken), delay_minutes is the difference in seconds divided by 60 and rounded
\* to the nearest integer, for positive and negative differences.
C21_DelayIsRounded ==
    (BothParse /\ Subtractable) =>
        tout.status.delay_minutes = RoundedMinutes(DifferenceSeconds)

\* C21 amended: when both timestamps parse and their difference can be taken,
\* delay_minutes is the difference in seconds divided by 60 with the fraction
\* dropped (truncation towards zero): it is the integer m of the difference's
\* sign with 60|m| <= |difference| < 60(|m| + 1).  59 seconds late and 59
\* seconds early are both 0 minutes; 959 seconds late are 15 minutes.
C21_DelayIsTruncated ==
    (BothParse /\ Subtractable) =>
        LET m == tout.status.delay_minutes
            s == DifferenceSeconds
        IN  IF s >= 0
            THEN m >= 0 /\ 60 * m <= s /\ s < 60 * (m + 1)
            ELSE m <= 0 /\ 60 * m >= s /\ s > 60 * (m - 1)

C21_Witness ==
    /\ BothParse /\ Subtractable
    /\ DifferenceSeconds = 959
    /\ tout.status.delay_minutes = 15

C21_WitnessEarly ==
    /\ BothParse /\ Subtractable
    /\ DifferenceSeconds = -59
    /\ tout.status.delay_minutes = 0

(***************************************************************************)
(* The status categories of a normalized record                            *)
(***************************************************************************)

ScheduledOfInput == Get(tin.obj, "scheduled_arrival", NoTime)
ActualOfInput == Get(tin.obj, "actual_arrival", NoTime)

EitherMissing == ScheduledOfInput = NoTime \/ ActualOfInput = NoTime

EitherFailsToParse == ScheduledOfInput = BadTime \/ ActualOfInput = BadTime

FiveCategories ==
    {"On Time", "Slightly Delayed", "Delayed", "Significantly Delayed", "Unknown"}

\* C22 as stated: the status category of every normalized record is one of
\* the five values On Time, Slightly Delayed, Delayed, Significantly Delayed,
\* Unknown; when either timestamp is missing, and when either fails to parse,
\* delay_minutes is 0 and the category is Unknown.
C22_FiveCategories ==
    NormalizedRecord =>
        /\ tout.status.category \in FiveCategories
        /\ (EitherMissing \/ EitherFailsToParse) =>
            /\ tout.status.delay_minutes = 0
            /\ tout.status.category = "Unknown"

\* C22 amended: the status category of every normalized record is one of six
\* values: the five of the statement and "Status Unknown".  When either
\* timestamp is missing, delay_minutes is 0 and the category is "Unknown" (with
\* the magnifier emoji), whatever the other timestamp is.  When both are
\* present and either fails to parse, delay_minutes is 0 and the category is
\* "Status Unknown" (with the question mark emoji).
C22_SixCategories ==
    NormalizedRecord =>
        /\ tout.status.category \in FiveCategories \cup {"Status Unknown"}
        /\ EitherMissing =>
            /\ tout.status.delay_minutes = 0
            /\ tout.status.category = "Unknown"
            /\ tout.status.emoji = "magnifier"
        /\ (~EitherMissing /\ EitherFailsToParse) =>
            /\ tout.status.delay_minutes = 0
            /\ tout.status.category = "Status Unknown"
            /\ tout.status.emoji = "question mark"

C22_Witness ==
    /\ NormalizedRecord
    /\ ScheduledOfInput = BadTime
    /\ ActualOfInput = ScheduledAt
    /\ tout.status.category = "Status Unknown"
    /\ tout.status.delay_minutes = 0

C22_WitnessMissing ==
    /\ NormalizedRecord
    /\ ScheduledOfInput = BadTime
    /\ ActualOfInput = NoTime
    /\ tout.status.category = "Unknown"

(***************************************************************************)
(* delay_text                                                              *)
(***************************************************************************)

\* The texts that spell the hour unit in the plural
PluralHourTexts == {"{h} hours late"}

\* The texts that show a minutes remainder after the hours
RemainderTexts == {"{h}h {m}m late"}

HourTexts == {"{h} hour late", "{h} hours late", "{h}h {m}m late"}

\* C23 as stated: delay_text is "On time" when m <= 0, "m minutes late" when
\* 0 < m < 60, and for m >= 60 an hours text with h = m div 60 whose hour unit
\* is in the plural when h > 1 and which shows the remainder m mod 60 when it
\* is not zero and omits it when it is zero.
C23_HourUnitPluralized ==
    NormalizedRecord =>
        LET m == tout.status.delay_minutes
            dt == tout.status.delay_text
        IN  /\ m <= 0 => dt.text = "On time"
            /\ (0 < m /\ m < 60) => (dt.text = "{m} minutes late" /\ dt.m = m)
            /\ m >= 60 =>
                /\ dt.text \in HourTexts
                /\ dt.h = m \div 60
                /\ ((m \div 60 > 1) => dt.text \in PluralHourTexts)
                /\ (m % 60 # 0) => (dt.text \in RemainderTexts /\ dt.m = m % 60)
                /\ (m % 60 = 0) => dt.text \notin RemainderTexts

\* C23 amended: delay_text is "On time" when m <= 0 and "m minutes late" when
\* 0 < m < 60.  For m >= 60 with h = m div 60 and r = m mod 60: when r = 0 the
\* text is "h hour late" for h = 1 and "h hours late" for h > 1; when r # 0 the
\* text is "{h}h {r}m late", with the abbreviated unit "h" that is never put in
\* the plural.
C23_DelayText ==
    NormalizedRecord =>
        LET m == tout.status.delay_minutes
            dt == tout.status.delay_text
        IN  /\ m <= 0 => dt.text = "On time"
            /\ (0 < m /\ m < 60) => (dt.text = "{m} minutes late" /\ dt.m = m)
            /\ (m >= 60 /\ m % 60 = 0 /\ m \div 60 = 1) =>
                (dt.text = "{h} hour late" /\ dt.h = 1)
            /\ (m >= 60 /\ m % 60 = 0 /\ m \div 60 > 1) =>
                (dt.text = "{h} hours late" /\ dt.h = m \div 60)
            /\ (m >= 60 /\ m % 60 # 0) =>
                (dt.text = "{h}h {m}m late" /\ dt.h = m \div 60 /\ dt.m = m % 60)

C23_Witness ==
    /\ NormalizedRecord
    /\ tout.status.delay_minutes = 125
    /\ tout.status.delay_text = [text |-> "{h}h {m}m late", h |-> 2, m |-> 5]

C23_WitnessOneHour ==
    /\ NormalizedRecord
    /\ tout.status.delay_minutes = 60
    /\ tout.status.delay_text = [text |-> "{h} hour late", h |-> 1, m |-> 0]

C23_WitnessTwoHours ==
    /\ NormalizedRecord
    /\ tout.status.delay_minutes = 120
    /\ tout.status.delay_text = [text |-> "{h} hours late", h |-> 2, m |-> 0]

(***************************************************************************)
(* Compass direction of a bearing                                          *)
(***************************************************************************)

\* The 16 compass points, clockwise from North
CompassPoints ==
    <<"North", "North-Northeast", "Northeast", "East-Northeast",
      "East", "East-Southeast", "Southeast", "South-Southeast",
      "South", "South-Southwest", "Southwest", "West-Southwest",
      "West", "West-Northwest", "Northwest", "North-Northwest">>

\* Angle between two bearings, in hundredths of a degree
AngleBetween(b, c) ==
    LET d == (b - c) % 36000
    IN  IF d <= 18000 THEN d ELSE 36000 - d

\* C24: for every bearing b in [0, 360) the direction is one of the 16 compass
\* points, at an index in 0..15 of the list that starts at North and goes
\* clockwise, and it is the point whose multiple of 22.5 degrees is nearest to
\* b (on a border between two points, the point of even index); bearings
\* within 11.25 degrees below 360 give North.
C24_NearestCompassPoint ==
    tool = "compass" =>
        LET b == tin.bearing100
        IN  /\ \E i \in 0..15 : CompassPoints[i + 1] = tout.direction
            /\ \A i \in 0..15 :
                CompassPoints[i + 1] = tout.direction =>
                    /\ \A j \in 0..15 : AngleBetween(b, i * 2250) <= AngleBetween(b, j * 2250)
                    /\ (b % 2250 = 1125) => i % 2 = 0
            /\ b >= 34875 => tout.direction = "North"
            /\ b = 9000 => tout.direction = "East"
            /\ b = 18000 => tout.direction = "South"
            /\ b = 27000 => tout.direction = "West"

C24_Witness ==
    /\ tool = "compass"
    /\ tin.bearing100 = 34876
    /\ tout.direction = "North"

C24_WitnessBelowBorder ==
    /\ tool = "compass"
    /\ tin.bearing100 = 34874
    /\ tout.direction = "North-Northwest"

(***************************************************************************)
(* Haversine distance                                                      *)
(***************************************************************************)

SubRegionBoxes ==
    << [tag |-> "Tamil Nadu/Karnataka", lat |-> 8..13, lon |-> 76..80],
       [tag |-> "Maharashtra", lat |-> 19..24, lon |-> 72..75],
       [tag |-> "Delhi/Haryana", lat |-> 28..31, lon |-> 76..78],
       [tag |-> "West Bengal", lat |-> 22..26, lon |-> 88..92] >>

BoxesContaining(lat, lon) ==
    { i \in 1..4 : lat \in SubRegionBoxes[i].lat /\ lon \in SubRegionBoxes[i].lon }

\* C26: hemisphere is Northern iff lat >= 0 and the longitude zone is Eastern
\* iff lon >= 0; region "Indian Subcontinent" is tagged iff lat is in [6, 37]
\* and lon in [68, 97]; a sub-region tag is present only when the region is
\* tagged, is the tag of the first of the four boxes that contains the point,
\* and is absent when no box contains the point.
C26_RegionTagging ==
    tool = "region" =>
        LET lat == tin.lat
            lon == tin.lon
            boxes == BoxesContaining(lat, lon)
        IN  /\ tout.hemisphere \in {"Northern", "Southern"}
            /\ tout.hemisphere = "Northern" <=> lat >= 0
            /\ tout.longitude_zone \in {"Eastern", "Western"}
            /\ tout.longitude_zone = "Eastern" <=> lon >= 0
            /\ "region" \in DOMAIN tout <=> (lat \in 6..37 /\ lon \in 68..97)
            /\ "region" \in DOMAIN tout => tout.region = "Indian Subcontinent"
            /\ "likely_state" \in DOMAIN tout => "region" \in DOMAIN tout
            /\ boxes = {} => "likely_state" \notin DOMAIN tout
            /\ boxes # {} =>
                /\ "likely_state" \in DOMAIN tout
                /\ \E i \in boxes :
                    /\ \A j \in boxes : i <= j
                    /\ tout.likely_state = SubRegionBoxes[i].tag

C26_Witness ==
    /\ tool = "region"
    /\ tin = [lat |-> 24, lon |-> 75]
    /\ tout = [hemisphere |-> "Northern", longitude_zone |-> "Eastern",
               region |-> "Indian Subcontinent", likely_state |-> "Maharashtra"]

C26_WitnessNoBox ==
    /\ tool = "region"
    /\ tin = [lat |-> 25, lon |-> 75]
    /\ "region" \in DOMAIN tout
    /\ "likely_state" \notin DOMAIN tout

C26_WitnessEquator ==
    /\ tool = "region"
    /\ tin = [lat |-> 0, lon |-> -1]
    /\ tout = [hemisphere |-> "Northern", longitude_zone |-> "Western"]

(***************************************************************************)
(* The success flag of get_train_status                                    *)
(***************************************************************************)

\* The call returned what _process_crew_result made of the formatter's output
ReturnedFormatterOutput ==
    /\ pc = "done"
    /\ Len(log) = 5
    /\ log[5].stage = "formatter"
    /\ "success" \in DOMAIN log[5].out

\* C27 as stated: get_train_status returns success = true only if the
\* pipeline's final formatter output has success = true; a query whose formatter
\* output has success = false is returned with success = false.
C27_SuccessReflectsPipeline ==
    ReturnedFormatterOutput => (ret.success => log[5].out.success)

\* What the runner does: when it hands the formatter's output on as data, the
\* flag is true whatever that output says
C27_SuccessWheneverProcessed ==
    (ReturnedFormatterOutput /\ "data" \in DOMAIN ret) => ret.success

C27_FailureReturnedAsSuccess ==
    /\ ReturnedFormatterOutput
    /\ ~log[5].out.success
    /\ ret.success
    /\ ret.data = log[5].out

(***************************************************************************)
(* The source annotation of concurrent fetches                             *)
(***************************************************************************)

\* C28 as stated: when two fetches of the same key run at the same time, under
\* every interleaving a fetch that made the live lookup returns its record with
\* source = web_search and a fetch served from the cache returns its record
\* with source = cache: the annotation one fetch writes on the shared cached
\* dict never changes what the other returns.
C28_AnnotationPerFetch ==
    \A th \in Threads :
        threads[th].pc = "done" =>
            /\ threads[th].path = "live" => threads[th].out.source = "web_search"
            /\ threads[th].path = "cache_hit" => threads[th].out.source = "cache"

\* A fetch that made the live lookup returned its record with source = cache
C28_LiveFetchReturnsCache ==
    \E th \in Threads :
        /\ threads[th].pc = "done"
        /\ threads[th].path = "live"
        /\ threads[th].out.source = "cache"

\* A fetch served from the cache returned its record with source = web_search
C28_CachedFetchReturnsWebSearch ==
    \E th \in Threads :
        /\ threads[th].pc = "done"
        /\ threads[th].path = "cache_hit"
        /\ threads[th].out.source = "web_search"

(***************************************************************************)
(* delay_text against status_category                                      *)
(***************************************************************************)

\* C29 as stated: in every normalized record, delay_text is "On time" if and
\* only if the status category is On Time, for every combination of present,
\* missing and unparseable timestamps.
C29_OnTimeTextIffOnTimeCategory ==
    NormalizedRecord =>
        (tout.status.delay_text.text = "On time" <=> tout.status.category = "On Time")

\* The half that the normalizer keeps: a record of category On Time has the
\* text "On time"
C29_OnTimeCategoryHasOnTimeText ==
    NormalizedRecord =>
        (tout.status.category = "On Time" => tout.status.delay_text.text = "On time")

\* A record whose category is Unknown and whose text is "On time"
C29_UnknownWithOnTimeText ==
    /\ NormalizedRecord
    /\ EitherMissing
    /\ tout.status.category = "Unknown"
    /\ tout.status.delay_text.text = "On time"

\* A record whose category is Status Unknown and whose text is "On time"
C29_StatusUnknownWithOnTimeText ==
    /\ NormalizedRecord
    /\ ~EitherMissing /\ EitherFailsToParse
    /\ tout.status.category = "Status Unknown"
    /\ tout.status.delay_text.text = "On time"

(***************************************************************************)
(* The error type the runner hands to the advisor                          *)
(***************************************************************************)

\* The types for which the advisor has its own suggestions
AdvisorNamedTypes == {"validation", "api", "network", "processing", "execution"}

ExecutionSuggestions ==
    <<"There was a system error during processing",
      "Try the request again",
      "If the problem persists, contact support",
      "Check that all required services are running">>

\* C30 as stated: the error_type the runner puts in the error envelope when the
\* pipeline's execution fails is one of the advisor's named types, so that the
\* failure is advised with the execution suggestions and retry_recommended =
\* true and not with the generic ones.
C30_RunnerTypeIsNamed ==
    \A i \in 1..Len(log) :
        log[i].stage = "error_advisor" =>
            /\ log[i].input.error_type \in AdvisorNamedTypes
            /\ log[i].out.suggestions = ExecutionSuggestions
            /\ log[i].out.retry_recommended

\* What happens: the runner's type is "execution_error", which the advisor does
\* not know; the advice is the generic one without a retry
C30_ExecutionFailureAdvisedGenerically ==
    \A i \in 1..Len(log) :
        log[i].stage = "error_advisor" =>
            /\ log[i].input.error_type = "execution_error"
            /\ log[i].out.suggestions = GenericSuggestions
            /\ ~log[i].out.retry_recommended

C30_AdvisorRan ==
    /\ pc = "done"
    /\ Len(log) > 0
    /\ log[Len(log)].stage = "error_advisor"
    /\ ret.error = "execution_error"

====
